---- MODULE Spec2Model ----
(***************************************************************************)
(* kekbit: a single-writer / many-reader channel over a memory mapped      *)
(* file.  The model follows src/src/core/writer.rs (ShmWriter, KekWrite),  *)
(* src/src/core/reader.rs (ShmReader, TimeoutReader), src/src/api.rs       *)
(* (Encodable) and src/src/core/utils.rs (framing constants).              *)
(*                                                                         *)
(* The data region is modelled byte by byte, addressed by the offset from  *)
(* data_ptr.  A u64 is the tuple of its eight little-endian bytes, because *)
(* the sentinels exceed the 32-bit integers of TLC.  The        *)
(* channel geometry is scaled down: capacity and max_msg_len are small     *)
(* multiples of 8; the writer and the readers only ever use them through   *)
(* capacity() and max_msg_len().  debug_assert! is compiled out (release   *)
(* build); it is read as a statement of intent only.                       *)
(***************************************************************************)
EXTENDS Integers, Sequences, FiniteSets, TLC

(* ------------------------------ bounds --------------------------------- *)
\* capacity of the data region, in 8-byte slots
CapSlots == 5
\* max_msg_len, in 8-byte units
MaxMsgSlots == 2
\* the wall clock stops advancing here
MaxTime == 1
\* metadata.timeout, in ticks
TimeoutTicks == 1
\* the history counts up to this many Failed items of one iterator
MaxFails == 2
\* a chain links at most this many handlers
MaxChain == 3
\* the sink the handlers write to takes this many 8-byte words
SinkWords == 5
\* Backoff of crossbeam_utils: the step after which is_completed() holds
\* (10 in the library)
YIELD_LIMIT == 1
\* try_shm_reader is called with tries in 1..MaxTries
MaxTries == 2
\* and with this duration_millis
DurationMs == 5

(* ------------------------- program constants --------------------------- *)
U64_SIZE == 8
REC_HEADER_LEN == 8
REC_ALIGNMENT == U64_SIZE
FOOTER_LEN == 32
METADATA_LEN == 128
\* stands for u64::MAX, which is larger than every clock value of the model
END_OF_TIME == 1000000

Capacity == CapSlots * U64_SIZE
MaxMsgLen == MaxMsgSlots * U64_SIZE
\* bytes addressable behind data_ptr: the data region and the footer
MemLen == Capacity + FOOTER_LEN
\* mmap.len(): metadata, data region, footer
MmapLen == Capacity + METADATA_LEN + FOOTER_LEN

Min(a, b) == IF a <= b THEN a ELSE b

(* --------------------------- u64 as LE bytes --------------------------- *)
\* u64::to_le_bytes for n < 2^16
ToLe(n) == <<n % 256, (n \div 256) % 256, 0, 0, 0, 0, 0, 0>>
\* 0xFFFF_FFFF_1111_1111
WATERMARK == <<17, 17, 17, 17, 255, 255, 255, 255>>
\* 0xFFFF_FFFF_FFFF_FFFF
CLOSE == <<255, 255, 255, 255, 255, 255, 255, 255>>
\* the value of a word that is below 2^16
Low16(word) == word[1] + 256 * word[2]
\* word <= n as u64, for n < 2^16
LeqU64(word, n) == (\A i \in 3..8 : word[i] = 0) /\ Low16(word) <= n

\* (value + (REC_ALIGNMENT - 1)) & !(REC_ALIGNMENT - 1)
align(value) == ((value + (REC_ALIGNMENT - 1)) \div REC_ALIGNMENT) * REC_ALIGNMENT

(* ------------------------------- memory -------------------------------- *)
ZeroMem == [a \in 0..(MemLen - 1) |-> 0]

\* a byte behind data_ptr; the pages past the modelled ones read as zero
Peek(m, a) == IF a \in DOMAIN m THEN m[a] ELSE 0

load_atomic_u64(m, off) == [i \in 1..8 |-> Peek(m, off + i - 1)]

store_atomic_u64(m, off, word) ==
    [a \in DOMAIN m |-> IF a >= off /\ a < off + 8 THEN word[a - off + 1] ELSE m[a]]

copy_nonoverlapping(m, dst, data) ==
    [a \in DOMAIN m |-> IF a >= dst /\ a < dst + Len(data) THEN data[a - dst + 1] ELSE m[a]]

\* the bytes of std::slice::from_raw_parts(data_ptr + off, n)
SliceOf(m, off, n) == [i \in 1..n |-> Peek(m, off + i - 1)]

(* ------------------------------ payloads ------------------------------- *)
Fill(b, n) == [i \in 1..n |-> b]

\* what callers hand to write(): an Encodable is the list of the chunks it
\* passes to Write::write and what it does with the results.
\*   plain  : impl<T: AsRef<[u8]>> Encodable for T, one w.write(bytes)
\*   ignore : a user Encodable that goes on after a failed w.write, returns Ok
\*   broken : a user Encodable that fails by itself after its writes
Plain(p) == [kind |-> "plain", chunks |-> <<p>>]
RECURSIVE Flatten(_)
\* all the bytes an Encodable wants to write
Flatten(chunks) == IF chunks = <<>> THEN <<>> ELSE Head(chunks) \o Flatten(Tail(chunks))
Payloads == {Fill(65, 3), Fill(66, MaxMsgLen), Fill(67, MaxMsgLen + 1)}
Encodables ==
    {Plain(p) : p \in Payloads}
    \cup {[kind |-> "ignore", chunks |-> <<Fill(68, 2), Fill(69, MaxMsgLen)>>],
          [kind |-> "broken", chunks |-> <<Fill(68, 2)>>]}

(* ------------------------------ KekWrite ------------------------------- *)
\* KekWrite::reset
KekWrite_reset(write_ptr, max_size) ==
    [write_ptr |-> write_ptr, max_size |-> max_size, total |-> 0, failed |-> FALSE]

\* <KekWrite as Write>::write on sink state st = [kw, mem, ret]
KekWrite_write(st, data) ==
    IF st.kw.failed
    THEN [st EXCEPT !.ret = "Ok"]
    ELSE IF st.kw.total + Len(data) > st.kw.max_size
    THEN [st EXCEPT !.kw.failed = TRUE, !.ret = "WriteZero"]
    ELSE [kw  |-> [st.kw EXCEPT !.total = st.kw.total + Len(data)],
          mem |-> copy_nonoverlapping(st.mem, st.kw.write_ptr + st.kw.total, data),
          ret |-> "Ok"]

RECURSIVE WriteChunks(_, _, _)
\* the calls of Write::write an Encodable makes, in order
WriteChunks(chunks, st, stopOnErr) ==
    IF chunks = <<>> THEN st
    ELSE LET st1 == KekWrite_write(st, Head(chunks))
         IN  IF stopOnErr /\ st1.ret # "Ok" THEN st1
             ELSE WriteChunks(Tail(chunks), st1, stopOnErr)

\* Encodable::encode
encode(e, st) ==
    CASE e.kind = "plain"  -> KekWrite_write(st, e.chunks[1])
      [] e.kind = "ignore" -> [WriteChunks(e.chunks, st, FALSE) EXCEPT !.ret = "Ok"]
      [] e.kind = "broken" -> [WriteChunks(e.chunks, st, TRUE) EXCEPT !.ret = "Other"]

(* ------------------------------ handlers ------------------------------- *)
\* (-1i64).to_le_bytes()
MinusOne == <<255, 255, 255, 255, 255, 255, 255, 255>>

\* the handlers of tests::test_chain: what incoming and what outgoing write;
\* <<>> is the default of the trait, which writes nothing and returns Ok(0)
IdHandler(id) == [t |-> "leaf", in |-> ToLe(id), out |-> ToLe(id)]
InHandler == [t |-> "leaf", in |-> MinusOne, out |-> <<>>]
OutHandler == [t |-> "leaf", in |-> <<>>, out |-> MinusOne]
LeafHandlers == {IdHandler(1), IdHandler(2), IdHandler(3), InHandler, OutHandler}
\* EncoderHandler on the data of one call: handle() is data.encode(w), one
\* w.write of the payload
EncoderHandler(data) == [t |-> "leaf", in |-> data, out |-> <<>>]

\* ChainedHandler::link
link(handler, decorator) == [t |-> "chain", decorator |-> decorator, handler |-> handler]
NoHandler == [t |-> "none"]

\* the impl Write the handlers write to: the bytes it took, and whether the
\* last write returned Ok; it takes SinkWords words and fails after that
EmptySink == [bytes |-> <<>>, ok |-> TRUE, run |-> TRUE, cap |-> SinkWords * U64_SIZE]
NoSink == [bytes |-> <<>>, ok |-> TRUE, run |-> FALSE, cap |-> 0]
\* the sink ShmWriter::write hands to its handler: KekWrite::reset over
\* max_size bytes
KekSink(max_size) == [bytes |-> <<>>, ok |-> TRUE, run |-> TRUE, cap |-> max_size]
Sink_write(w, data) ==
    IF Len(w.bytes) + Len(data) > w.cap
    THEN [w EXCEPT !.ok = FALSE]
    ELSE [w EXCEPT !.bytes = w.bytes \o data]

\* Handler::incoming and Handler::outgoing: of a test handler, what it
\* writes; of a ChainedHandler, the default of the trait
Handler_incoming(h, w) ==
    IF h.t = "leaf" /\ h.in # <<>> THEN Sink_write(w, h.in) ELSE w
Handler_outgoing(h, w) ==
    IF h.t = "leaf" /\ h.out # <<>> THEN Sink_write(w, h.out) ELSE w

RECURSIVE Handler_handle(_, _)

\* faulty ChainedHandler::handle: the three hooks run whatever the earlier
\* ones returned
M39_ChainedHandler_handle(h, w) ==
    Handler_outgoing(h.decorator,
                     Handler_handle(h.handler, Handler_incoming(h.decorator, w)))

\* faulty ChainedHandler::handle: the decorator's two halves both run after
\* the wrapped handler
M18_ChainedHandler_handle(h, w) ==
    LET w1 == Handler_handle(h.handler, w)
    IN  IF ~w1.ok THEN w1
        ELSE LET w2 == Handler_incoming(h.decorator, w1)
             IN  IF ~w2.ok THEN w2 ELSE Handler_outgoing(h.decorator, w2)

\* ChainedHandler::handle: decorator.incoming, and_then handler.handle,
\* and_then decorator.outgoing
ChainedHandler_handle(h, w) ==
    LET w1 == Handler_incoming(h.decorator, w)
    IN  IF ~w1.ok THEN w1
        ELSE LET w2 == Handler_handle(h.handler, w1)
             IN  IF ~w2.ok THEN w2 ELSE Handler_outgoing(h.decorator, w2)

\* Handler::handle: of a ChainedHandler its own, else the default of the
\* trait, incoming and_then outgoing
Handler_handle(h, w) ==
    IF h.t = "chain" THEN ChainedHandler_handle(h, w)
    ELSE LET w1 == Handler_incoming(h, w)
         IN  IF ~w1.ok THEN w1 ELSE Handler_outgoing(h, w1)

(* ----------------------------- RetryWriter ----------------------------- *)
\* the threads of test::retry_write, and what each writes ("Hello i")
Threads == {"t1", "t2"}
NoThread == "none"
ThreadData(t) == IF t = "t1" THEN Fill(72, 3) ELSE Fill(73, 3)
\* each thread writes as often as the channel has room for, after the
\* heartbeat of ShmWriter::new (for _i in 0..3, in a channel that holds them)
WritesEach ==
    (Capacity - REC_HEADER_LEN)
        \div (Cardinality(Threads) * align(REC_HEADER_LEN + Len(ThreadData("t1"))))

\* Backoff::is_completed and Backoff::snooze
Backoff_is_completed(step) == step > YIELD_LIMIT
Backoff_snooze(step) == IF step <= YIELD_LIMIT THEN step + 1 ELSE step

\* faulty RetryWriter::write: a busy writer is retried for ever
M20_RetryWriter_gives_up(step) == FALSE

\* RetryWriter::write, try_lock returned None: if backoff.is_completed()
RetryWriter_gives_up(step) == Backoff_is_completed(step)

(* ----------------------- shm_writer and shm_reader --------------------- *)
\* the processes that call shm_writer and those that call try_shm_reader,
\* all for one (root, channel_id)
Creators == {"c1", "c2"}
Openers == {"o1", "o2"}

\* the channel file: gen tells the files successively created at the path
\* apart; sized after set_len, meta after Metadata::write_to, marker after
\* the heartbeat of ShmWriter::new
NoFile == [exists |-> FALSE, gen |-> 0, sized |-> FALSE, meta |-> FALSE, marker |-> FALSE]
NewFile(gen) == [exists |-> TRUE, gen |-> gen, sized |-> FALSE, meta |-> FALSE,
                 marker |-> FALSE]
NoView == [opened |-> FALSE, meta |-> FALSE, marker |-> FALSE, read_index |-> 0]

\* faulty shm_reader: a missing file is not looked for
M21_shm_reader_not_found(exists) == FALSE

\* shm_reader: if !kek_file_path.exists()
shm_reader_not_found(exists) == ~exists

\* faulty shm_reader: the lock file is not looked at
M22_shm_reader_not_ready(lock) == FALSE

\* shm_reader: if kek_lock_path.exists()
shm_reader_not_ready(lock) == lock

\* try_shm_reader: let interval = duration_millis / tries
try_shm_reader_interval(duration_millis, tries) == duration_millis \div tries

(* ------------------------------ Metadata ------------------------------- *)
MIN_CAPACITY == 16384
\* 0x2A54_4942_4B45_4B2A, as its little-endian bytes
SIGNATURE == <<42, 75, 69, 75, 66, 73, 84, 42>>
\* u64::MAX
MaxU64 == <<255, 255, 255, 255, 255, 255, 255, 255>>

\* a u32 is written <<its upper 16 bits, its lower 16 bits>>
u32(n) == <<n \div 65536, n % 65536>>
u32_max_value == <<65535, 65535>>
u32_lt(a, b) == a[1] < b[1] \/ (a[1] = b[1] /\ a[2] < b[2])
u32_max(a, b) == IF u32_lt(a, b) THEN b ELSE a
\* a + n in u32 for n below 2^16: the wrapped sum, and whether it wrapped
u32_add(a, n) ==
    LET lo == a[2] + n
        hi == a[1] + lo \div 65536
    IN  [val |-> <<hi % 65536, lo % 65536>>, overflow |-> hi >= 65536]
\* the value of a u32 below 2^31
u32_val(a) == a[1] * 65536 + a[2]
\* u32::to_le_bytes and u32::from_le_bytes
u32_to_le_bytes(a) == <<a[2] % 256, a[2] \div 256, a[1] % 256, a[1] \div 256>>
u32_from_le_bytes(b) == <<b[3] + 256 * b[4], b[1] + 256 * b[2]>>
\* u64 a >= u64 b, both as little-endian bytes
RECURSIVE GeqBytes(_, _, _)
GeqBytes(a, b, i) ==
    IF i = 0 THEN TRUE
    ELSE IF a[i] # b[i] THEN a[i] > b[i]
    ELSE GeqBytes(a, b, i - 1)
GeqU64(a, b) == GeqBytes(a, b, U64_SIZE)

\* utils::align on a u32: (value + 7) & !7, with whether the sum wrapped
align_u32(a) ==
    LET sum == u32_add(a, REC_ALIGNMENT - 1)
    IN  [val |-> <<sum.val[1], sum.val[2] - (sum.val[2] % REC_ALIGNMENT)>>,
         overflow |-> sum.overflow]
\* utils::is_aligned
is_aligned(a) == a[2] % REC_ALIGNMENT = 0

\* compute_max_msg_len: (capacity >> 7) - REC_HEADER_LEN, for a capacity
\* of MIN_CAPACITY and more; the result is below 2^25
compute_max_msg_len(capacity) ==
    (capacity[1] * 512 + capacity[2] \div 128) - REC_HEADER_LEN

\* Version::new as the little-endian bytes of major << 48 | minor << 32 |
\* patch, for a patch below 2^16
Version_new(major, minor, patch) ==
    <<patch % 256, patch \div 256, 0, 0,
      minor % 256, minor \div 256, major % 256, major \div 256>>
\* Version::latest
Version_latest == Version_new(1, 0, 0)

\* faulty is_compatible: the comparison is turned round
M29_Version_is_compatible(self, other) == GeqU64(other, self)

\* Version::is_compatible: self >= other
Version_is_compatible(self, other) == GeqU64(self, other)

\* TickUnit::id and TickUnit::from_id
TickUnits == {"Nanos", "Micros", "Millis", "Secs"}
TickUnit_id(unit) ==
    CASE unit = "Nanos" -> 9 [] unit = "Micros" -> 6 [] unit = "Millis" -> 3
      [] unit = "Secs" -> 0
TickUnit_from_id(id) ==
    CASE id = 9 -> "Nanos" [] id = 6 -> "Micros" [] id = 3 -> "Millis"
      [] id = 0 -> "Secs" [] OTHER -> "panic"

NoMetadata == [made |-> FALSE]
NoRead == [res |-> "none"]

\* Metadata::new: min(max_msg_len_hint + REC_HEADER_LEN,
\* compute_max_msg_len(capacity)); the limit is below 2^25
Metadata_limit(sum, limit) ==
    IF sum[1] >= 512 THEN limit ELSE Min(u32_val(sum), limit)

\* Metadata::new at clock value t
Metadata_new(writer_id, channel_id, capacity_hint, max_msg_len_hint, timeout, tick_unit, t) ==
    LET aligned == align_u32(capacity_hint)
        capacity == u32_max(u32(MIN_CAPACITY), aligned.val)
        sum == u32_add(max_msg_len_hint, REC_HEADER_LEN)
        max_msg_len == align(Metadata_limit(sum.val, compute_max_msg_len(capacity)))
    IN  [made |-> TRUE,
         overflow |-> aligned.overflow \/ sum.overflow,
         writer_id |-> writer_id, channel_id |-> channel_id,
         capacity |-> capacity, max_msg_len |-> u32(max_msg_len),
         timeout |-> timeout, creation_time |-> t,
         tick_unit |-> tick_unit, version |-> Version_latest]

\* faulty write_to: the bytes behind the tick unit are left as they were
M26_Metadata_padding(old) == SubSeq(old, 58, METADATA_LEN)

\* Metadata::write_to: for item in metadata.iter_mut().take(METADATA_LEN)
\* .skip(57) { *item = 0 }
Metadata_padding(old) == [i \in 1..(METADATA_LEN - 57) |-> 0]

\* Metadata::write_to on a block of METADATA_LEN bytes
Metadata_write_to(m, old) ==
    SIGNATURE \o Version_latest \o m.writer_id \o m.channel_id
      \o u32_to_le_bytes(m.capacity) \o u32_to_le_bytes(m.max_msg_len)
      \o m.timeout \o m.creation_time \o <<TickUnit_id(m.tick_unit)>>
      \o Metadata_padding(old)

\* Metadata::read_u64 and Metadata::read_u32
Metadata_read_u64(b, offset) == SubSeq(b, offset + 1, offset + 8)
Metadata_read_u32(b, offset) == u32_from_le_bytes(SubSeq(b, offset + 1, offset + 4))

\* Metadata::read: is_aligned(MIN_CAPACITY)
Metadata_capacity_aligned(capacity) == is_aligned(u32(MIN_CAPACITY))

\* Metadata::read
Metadata_read(b) ==
    LET signature == Metadata_read_u64(b, 0)
        version == Metadata_read_u64(b, 8)
        capacity == Metadata_read_u32(b, 32)
        max_msg_len == Metadata_read_u32(b, 36)
    IN  IF signature # SIGNATURE THEN [res |-> "InvalidSignature"]
        ELSE IF ~Version_is_compatible(Version_latest, version)
        THEN [res |-> "IncompatibleVersion"]
        ELSE IF u32_lt(capacity, u32(MIN_CAPACITY)) THEN [res |-> "InvalidCapacity"]
        ELSE IF ~Metadata_capacity_aligned(capacity) THEN [res |-> "InvalidCapacity"]
        ELSE IF u32_lt(u32(align(compute_max_msg_len(capacity))), max_msg_len)
        THEN [res |-> "InvalidMaxMessageLength"]
        ELSE IF ~is_aligned(max_msg_len) THEN [res |-> "InvalidMaxMessageLength"]
        ELSE IF TickUnit_from_id(b[57]) = "panic" THEN [res |-> "panic"]
        ELSE [res |-> "Ok",
              m |-> [made |-> TRUE,
                     writer_id |-> Metadata_read_u64(b, 16),
                     channel_id |-> Metadata_read_u64(b, 24),
                     capacity |-> capacity, max_msg_len |-> max_msg_len,
                     timeout |-> Metadata_read_u64(b, 40),
                     creation_time |-> Metadata_read_u64(b, 48),
                     tick_unit |-> TickUnit_from_id(b[57]),
                     version |-> version]]

\* the arguments Metadata::new is called with, the blocks write_to is given
\* and the fields a block of another origin may carry
CapacityHints == {u32(0), u32(10001), u32(16505), u32(300000), <<65535, 65528>>,
                  u32_max_value}
MaxMsgLenHints == {u32(0), u32(100), u32(1000), <<65535, 65530>>}
Ids == {ToLe(111), MaxU64}
Timeouts == {ToLe(10000), MaxU64}
OldBlocks == {[i \in 1..METADATA_LEN |-> 0], [i \in 1..METADATA_LEN |-> 255]}
Signatures == {SIGNATURE, <<42, 75, 69, 75, 75, 73, 84, 42>>, ToLe(0)}
Versions == {Version_new(0, 9, 9), Version_new(1, 0, 0), Version_new(1, 0, 1),
             Version_new(1, 1, 0), Version_new(2, 0, 0), Version_new(0, 0, 0)}
Capacities == {u32(8192), u32(16384), u32(16388), u32(16512), u32(300000)}
MaxMsgLens == {u32(0), u32(100), u32(120), u32(128), u32(136), u32(2336)}

(* ---------------------------- storage_path ---------------------------- *)
MaxPaths == 2

\* lower-case hexadecimal digits, as format!("{:x}") prints them
HexDigits == <<"0", "1", "2", "3", "4", "5", "6", "7", "8", "9",
               "a", "b", "c", "d", "e", "f">>
RECURSIVE LowerHex(_)
LowerHex(n) ==
    IF n < 16 THEN <<HexDigits[n + 1]>>
    ELSE LowerHex(n \div 16) \o <<HexDigits[(n % 16) + 1]>>

\* faulty "{:04x}": no padding
M30_Format04x(n) == LowerHex(n)

\* format!("{:04x}", n): zeroes in front up to a width of 4
Format04x(n) ==
    LET digits == LowerHex(n)
    IN  [i \in 1..(4 - Min(4, Len(digits))) |-> "0"] \o digits

\* format!("{:04x}_{:04x}", v >> 16, v & 0x0000_FFFF) for a u32 v
FormatGroups(v) == Format04x(v[1]) \o <<"_">> \o Format04x(v[2])

\* Path::with_extension on a path given as the sequence of its components,
\* each a sequence of characters: the extension of the last component (what
\* follows its last dot, unless the dot comes first) is replaced, or added
LastDot(name) ==
    LET dots == {i \in 2..Len(name) : name[i] = "."}
    IN  IF dots = {} THEN 0 ELSE CHOOSE i \in dots : \A j \in dots : j <= i
with_extension(path, extension) ==
    LET name == path[Len(path)]
        dot == LastDot(name)
        stem == IF dot = 0 THEN name ELSE SubSeq(name, 1, dot - 1)
    IN  SubSeq(path, 1, Len(path) - 1) \o <<stem \o <<".">> \o extension>>

\* storage_path, the channel id as its 8 little-endian bytes
storage_path(root_path, channel_id) ==
    LET high_val == u32_from_le_bytes(SubSeq(channel_id, 5, 8))
        low_val == u32_from_le_bytes(SubSeq(channel_id, 1, 4))
        channel_folder == FormatGroups(high_val)
        channel_file == FormatGroups(low_val)
        dir_path == root_path \o <<channel_folder>> \o <<channel_file>>
    IN  with_extension(dir_path, <<"k", "e", "k", "b", "i", "t">>)

\* the lock file of a channel: kek_file_path.with_extension("lock")
kek_lock_path(kek_file_path) == with_extension(kek_file_path, <<"l", "o", "c", "k">>)

\* channel ids by their four 16-bit groups, most significant first
ChannelId(g3, g2, g1, g0) ==
    <<g0 % 256, g0 \div 256, g1 % 256, g1 \div 256,
      g2 % 256, g2 \div 256, g3 % 256, g3 \div 256>>
\* 0xaaaa, 0xbbbb, 0xcccc, 0xdddd, 0x00bb, 0x000c, 0x0ddd as in
\* check_path_to_storage
ChannelIds == {ChannelId(g3, g2, g1, g0) : g3 \in {0, 43690}, g2 \in {0, 48059, 187},
                                          g1 \in {52428, 12}, g0 \in {0, 1, 56797, 3549}}
Roots == {<<<<"r", "o", "o", "t">>>>, <<<<"t", "m", "p">>, <<"k", ".", "d">>>>}

(* ------------------------ the file and data_ptr ------------------------ *)
\* the metadata of test::write_than_read
FileMetadata ==
    Metadata_new(ToLe(100), ToLe(1000), u32(10000), u32(1000), ToLe(0), "Nanos", ToLe(0))
FileCapacity == u32_val(FileMetadata.capacity)
FileMaxMsgLen == u32_val(FileMetadata.max_msg_len)
\* shm_writer: total_len = capacity + metadata.len() + FOOTER_LEN, the length
\* of the file and of the mapping
total_len == FileCapacity + METADATA_LEN + FOOTER_LEN
\* ShmWriter::new and ShmReader::new: the pointer to the block, taken as a
\* *mut u64, .add(len()): the byte offset of data_ptr in the mapping
data_ptr == METADATA_LEN * U64_SIZE
\* ShmWriter::available for a capacity and a write_offset
ShmWriter_available(capacity, offset) == ((capacity - offset) \div 8) * 8
\* the lengths of the messages written
MsgLens == {1, FileMaxMsgLen}

(* ------------------------------ variables ------------------------------ *)
VARIABLES
    mem,            \* the bytes behind data_ptr
    lockFile,       \* the .lock file exists
    wpc,            \* where the writer is
    write_offset,   \* ShmWriter.write_offset
    kwrite,         \* ShmWriter.write: the KekWrite sink
    wop,            \* the record being published: len, aligned size, bytes
    wres,           \* the outcome of the last completed writer call
    log,            \* history: the slots published so far
    close_index,    \* history: where Drop stored CLOSE, -1 before
    now,            \* the wall clock, in ticks
    opened,         \* reader -> shm_reader has returned it
    read_index,     \* reader -> ShmReader.read_index
    failure,        \* reader -> ShmReader.failure
    expiration,     \* reader -> TimeoutReader.expiration
    expired,        \* reader -> TimeoutReader.expired
    rres,           \* reader -> the result of its last try_read
    got,            \* history: reader -> the records try_read returned
    first_err,      \* history: reader -> the first error try_read returned
    err_polls,      \* history: reader -> try_read calls after that error
    empty_since,    \* history: reader -> clock of the first empty poll since the
                    \*   last returned record, END_OF_TIME when there is none
    iter_res,       \* reader -> what the last next() of its TryIter returned
    iter_fails,     \* history: reader -> how many times next() yielded Failed
    h_chain,        \* the handler built by ChainedHandler::link so far
    h_list,         \* history: the handlers linked, innermost first
    h_sink,         \* the sink after handle() of the chain ran on it
    holder,         \* Arc<Mutex<W>>: the thread that holds the guard, or NoThread
    tpc,            \* thread -> where it is in its loop over RetryWriter::write
    bstep,          \* thread -> Backoff.step of the call it is in
    tres,           \* thread -> what its last call returned, "none" during a call
    attempts,       \* history: thread -> try_lock calls of its last or current call
    done,           \* history: thread -> calls that returned Ok
    kfile,          \* the channel file at storage_path: whether it exists, which
                    \*   file it is, and how far it is initialised
    klock,          \* the .lock file beside it exists
    cpc,            \* process calling shm_writer -> where it is
    cres,           \* process calling shm_writer -> what the call returned
    cgen,           \* process calling shm_writer -> the file it has opened
    opc,            \* process calling try_shm_reader -> where it is
    tries_left,     \* process calling try_shm_reader -> its tries_left
    ores,           \* process -> what its last shm_reader returned
    ofinal,         \* process -> what try_shm_reader returned
    oview,          \* process -> the file as ShmReader::new found it, the
                    \*   position of the reader included
    otries,         \* history: process -> the tries it was called with
    ocalls,         \* history: process -> calls of shm_reader made
    oslept,         \* history: process -> milliseconds slept
    oseen,          \* history: process -> the results of its shm_reader calls
    md,             \* what Metadata::new returned, with whether it overflowed
    block,          \* a metadata block of 128 bytes
    rd,             \* what Metadata::read returned on the block
    paths,          \* the calls of storage_path made so far, with their results
    g_pc,           \* a writer on a channel of real size: where it is
    g_offset,       \* its write_offset
    g_stores,       \* history: the file offsets of the sentinels its last
                    \*   call stored
    tampered,       \* history: the data region was written by something other
                    \*   than the writer
    ri_pc,          \* reader -> where the next() of its RetryIter is
    ri_step,        \* reader -> Backoff.step of that call
    ri_res,         \* reader -> what the last next() of its RetryIter returned
    ri_polls,       \* history: reader -> calls of the inner next() made by the
                    \*   last or current next() of its RetryIter
    ri_got          \* history: reader -> the records its RetryIter returned

wvars == <<mem, lockFile, wpc, write_offset, kwrite, wop, wres, log, close_index>>
rvars == <<opened, read_index, failure, expiration, expired, rres, got, first_err, err_polls, empty_since>>
\* the iterators over the readers
ivars == <<iter_res, iter_fails>>
\* what the operations of the writer and of the readers leave alone
\* the handler chain
hvars == <<h_chain, h_list, h_sink>>
\* the threads that share the writer
tvars == <<holder, tpc, bstep, tres, attempts, done>>
\* the files of a channel, the processes creating it and those opening it
cvars == <<kfile, klock, cpc, cres, cgen, opc, tries_left, ores, ofinal, oview,
           otries, ocalls, oslept, oseen>>
\* a metadata and its block
mvars == <<md, block, rd>>
\* the storage paths computed
pvars == <<paths>>
\* the writer on a channel of real size
gvars == <<g_pc, g_offset, g_stores>>
\* whether the channel was tampered with
zvars == <<tampered>>
qvars == <<ri_pc, ri_step, ri_res, ri_polls, ri_got>>
yvars == <<cvars, mvars, pvars, gvars, zvars, qvars>>
xvars == <<ivars, hvars, tvars, yvars>>
\* what creating and opening a channel leaves alone
core_vars == <<wvars, now, rvars, ivars, hvars, tvars>>
vars == <<wvars, now, rvars, xvars>>

\* r1 is a ShmReader, r2 a TimeoutReader<ShmReader>
Readers == {"r1", "r2"}
TimeoutReaders == {"r2"}

NoOp == [kind |-> "none", len |-> 0, aligned |-> 0, data |-> <<>>]
NoRes == [op |-> "none", res |-> "none", size |-> 0, at |-> 0, fulls |-> 0]

\* Option<ReadError> and ReadError
None == [kind |-> "None", t |-> 0]
Closed == [kind |-> "Closed", t |-> 0]
Failed == [kind |-> "Failed", t |-> 0]
Timeout(d) == [kind |-> "Timeout", t |-> d]
\* ReadError::ChannelFull: declared in api.rs, returned by no reader of reader.rs
ChannelFull == [kind |-> "ChannelFull", t |-> 0]

\* Result<Option<&[u8]>, ReadError>
Nothing == [kind |-> "Nothing", err |-> None, off |-> 0, data |-> <<>>]
Record(off, data) == [kind |-> "Record", err |-> None, off |-> off, data |-> data]
Err(e) == [kind |-> "Err", err |-> e, off |-> 0, data |-> <<>>]
NoCall == [kind |-> "none", err |-> None, off |-> 0, data |-> <<>>]

\* Option<ReadResult>, the item of TryIter::next: Ok(None) becomes Nothing,
\* Ok(Some(record)) becomes Record(record), Err(failure) becomes Failed(failure)
IterSome(res) == [some |-> TRUE,
                  kind |-> IF res.kind = "Err" THEN "Failed" ELSE res.kind,
                  err |-> res.err, off |-> res.off, data |-> res.data]
IterNone == [some |-> FALSE, kind |-> "None", err |-> None, off |-> 0, data |-> <<>>]
IterNoCall == [some |-> FALSE, kind |-> "none", err |-> None, off |-> 0, data |-> <<>>]

\* faulty available: the footer is counted as room for records
M12_available == ((MemLen - write_offset) \div 8) * 8

\* ShmWriter::available
available == ((Capacity - write_offset) \div 8) * 8

Init ==
    /\ mem = ZeroMem
    /\ lockFile = TRUE
    /\ wpc = "new"
    /\ write_offset = 0
    /\ kwrite = KekWrite_reset(0, MaxMsgLen)
    /\ wop = NoOp
    /\ wres = NoRes
    /\ log = <<>>
    /\ close_index = -1
    /\ now = 0
    /\ opened = [r \in Readers |-> FALSE]
    /\ read_index = [r \in Readers |-> 0]
    /\ failure = [r \in Readers |-> None]
    /\ expiration = [r \in Readers |-> END_OF_TIME]
    /\ expired = [r \in Readers |-> None]
    /\ rres = [r \in Readers |-> NoCall]
    /\ got = [r \in Readers |-> <<>>]
    /\ first_err = [r \in Readers |-> None]
    /\ err_polls = [r \in Readers |-> 0]
    /\ empty_since = [r \in Readers |-> END_OF_TIME]
    /\ iter_res = [r \in Readers |-> IterNoCall]
    /\ iter_fails = [r \in Readers |-> 0]
    /\ h_chain = NoHandler
    /\ h_list = <<>>
    /\ h_sink = NoSink
    /\ holder = NoThread
    /\ tpc = [t \in Threads |-> "try"]
    /\ bstep = [t \in Threads |-> 0]
    /\ tres = [t \in Threads |-> "none"]
    /\ attempts = [t \in Threads |-> 0]
    /\ done = [t \in Threads |-> 0]
    /\ kfile = NoFile
    /\ klock = FALSE
    /\ cpc = [c \in Creators |-> "start"]
    /\ cres = [c \in Creators |-> "none"]
    /\ cgen = [c \in Creators |-> 0]
    /\ opc = [o \in Openers |-> "idle"]
    /\ tries_left = [o \in Openers |-> 0]
    /\ ores = [o \in Openers |-> "none"]
    /\ ofinal = [o \in Openers |-> "none"]
    /\ oview = [o \in Openers |-> NoView]
    /\ otries = [o \in Openers |-> 0]
    /\ ocalls = [o \in Openers |-> 0]
    /\ oslept = [o \in Openers |-> 0]
    /\ oseen = [o \in Openers |-> {}]
    /\ md = NoMetadata
    /\ block = <<>>
    /\ rd = NoRead
    /\ paths = {}
    /\ g_pc = "new"
    /\ g_offset = 0
    /\ g_stores = {}
    /\ tampered = FALSE
    /\ ri_pc = [r \in Readers |-> "idle"]
    /\ ri_step = [r \in Readers |-> 0]
    /\ ri_res = [r \in Readers |-> IterNoCall]
    /\ ri_polls = [r \in Readers |-> 0]
    /\ ri_got = [r \in Readers |-> <<>>]

(* ------------------------------- writer -------------------------------- *)
\* faulty write_metadata: the length is stored before the WATERMARK behind it
M2_write_metadata(m, write_ptr, len, aligned_rec_len, step) ==
    IF step = 1
    THEN store_atomic_u64(m, write_ptr, ToLe(len))
    ELSE store_atomic_u64(m, write_ptr + aligned_rec_len, WATERMARK)

\* faulty write_metadata: no WATERMARK is stored behind the record
M32_write_metadata(m, write_ptr, len, aligned_rec_len, step) ==
    IF step = 1
    THEN m
    ELSE store_atomic_u64(m, write_ptr, ToLe(len))

\* ShmWriter::write_metadata: its two release stores, in program order
write_metadata(m, write_ptr, len, aligned_rec_len, step) ==
    IF step = 1
    THEN store_atomic_u64(m, write_ptr + aligned_rec_len, WATERMARK)
    ELSE store_atomic_u64(m, write_ptr, ToLe(len))

\* faulty room test: a channel with room for a header only is not full
M10_channel_full(avail) == avail < REC_HEADER_LEN

\* write and heartbeat: if available <= REC_HEADER_LEN
channel_full(avail) == avail <= REC_HEADER_LEN

\* faulty payload pointer: the sink starts at the record header
M8_payload_ptr(w) == w

\* write: write_ptr = read_head_ptr.add(REC_HEADER_LEN), as an offset
payload_ptr(w) == w + REC_HEADER_LEN

\* the outcome of a writer call, as the caller sees it
Outcome(op, res, size) ==
    [op |-> op, res |-> res, size |-> size, at |-> write_offset,
     fulls |-> IF res = "ChannelFull" /\ wres.fulls < 2 THEN wres.fulls + 1 ELSE wres.fulls]

\* ShmWriter::new: the writer starts with a heartbeat, before shm_writer
\* removes the lock file.  The heartbeat finds room: a channel is never
\* smaller than two slots (capacity >= MIN_CAPACITY in the code).
ShmWriter_new ==
    /\ wpc = "new"
    /\ ~channel_full(available)
    /\ wop' = [kind |-> "new", len |-> 0, aligned |-> REC_HEADER_LEN, data |-> <<>>]
    /\ wpc' = "meta1"
    /\ UNCHANGED <<mem, lockFile, write_offset, kwrite, wres, log, close_index, now, rvars, xvars>>

\* shm_writer, after ShmWriter::new: remove_file(&kek_lock_path)
RemoveLock ==
    /\ wpc = "unlock"
    /\ lockFile' = FALSE
    /\ wpc' = "idle"
    /\ UNCHANGED <<mem, write_offset, kwrite, wop, wres, log, close_index, now, rvars, xvars>>

\* ShmWriter::write up to the call of write_metadata: what it does to the
\* writer
write_step(data) ==
    /\ wpc = "idle"
    /\ IF channel_full(available)
       THEN /\ wres' = Outcome("write", "ChannelFull", 0)
            /\ UNCHANGED <<mem, kwrite, wop, wpc>>
       ELSE LET len == Min(MaxMsgLen, available - REC_HEADER_LEN)
                st0 == [kw  |-> KekWrite_reset(payload_ptr(write_offset), len),
                        mem |-> mem, ret |-> "Ok"]
                st  == encode(data, st0)
            IN  /\ mem' = st.mem
                /\ kwrite' = st.kw
                /\ IF st.ret = "Ok"
                   THEN IF ~st.kw.failed
                        THEN /\ wop' = [kind |-> "write",
                                        len |-> st.kw.total,
                                        aligned |-> align(st.kw.total + REC_HEADER_LEN),
                                        data |-> Flatten(data.chunks)]
                             /\ wpc' = "meta1"
                             /\ UNCHANGED wres
                        ELSE /\ wres' = Outcome("write", "NoSpaceForRecord", 0)
                             /\ UNCHANGED <<wop, wpc>>
                   ELSE /\ wres' = Outcome("write", "EncodingError", 0)
                        /\ UNCHANGED <<wop, wpc>>
    /\ UNCHANGED <<lockFile, write_offset, log, close_index, now, rvars>>

\* ShmWriter::write, called by the owner of the writer
write(data) == write_step(data) /\ UNCHANGED xvars

\* ShmWriter::heartbeat up to the call of write_metadata
heartbeat ==
    /\ wpc = "idle"
    /\ IF channel_full(available)
       THEN /\ wres' = Outcome("heartbeat", "ChannelFull", 0)
            /\ UNCHANGED <<wop, wpc>>
       ELSE /\ wop' = [kind |-> "heartbeat", len |-> 0,
                       aligned |-> REC_HEADER_LEN, data |-> <<>>]
            /\ wpc' = "meta1"
            /\ UNCHANGED wres
    /\ UNCHANGED <<mem, lockFile, write_offset, kwrite, log, close_index, now, rvars, xvars>>

\* write_metadata, first store
StoreFirst ==
    /\ wpc = "meta1"
    /\ mem' = write_metadata(mem, write_offset, wop.len, wop.aligned, 1)
    /\ wpc' = "meta2"
    /\ UNCHANGED <<lockFile, write_offset, kwrite, wop, wres, log, close_index, now, rvars, xvars>>

\* write_metadata, second store; then write_offset += aligned_rec_len and
\* the call returns Ok(aligned_rec_len)
StoreSecond ==
    /\ wpc = "meta2"
    /\ mem' = write_metadata(mem, write_offset, wop.len, wop.aligned, 2)
    /\ write_offset' = write_offset + wop.aligned
    /\ log' = Append(log, [off |-> write_offset, len |-> wop.len, kind |-> wop.kind,
                           data |-> wop.data])
    /\ wres' = Outcome(wop.kind, "Ok", wop.aligned)
    /\ wpc' = IF wop.kind = "new" THEN "unlock" ELSE "idle"
    /\ wop' = NoOp
    /\ UNCHANGED <<lockFile, kwrite, close_index, now, rvars, xvars>>

\* faulty Drop: CLOSE goes into the last published slot
M33_close_ptr(write_index) == write_index - U64_SIZE

\* faulty Drop: CLOSE goes to the start of the data region
M5_close_ptr(write_index) == 0

\* Drop: write_ptr = self.data_ptr.offset(write_index), as an offset
close_ptr(write_index) == write_index

\* faulty Drop: the writer goes away without storing CLOSE
M6_drop ==
    /\ wpc = "idle"
    /\ close_index' = write_offset
    /\ write_offset' = MmapLen
    /\ wpc' = "dropped"
    /\ UNCHANGED <<mem, lockFile, kwrite, wop, wres, log, now, rvars, xvars>>

\* Drop for ShmWriter
drop ==
    /\ wpc = "idle"
    /\ mem' = store_atomic_u64(mem, close_ptr(write_offset), CLOSE)
    /\ close_index' = write_offset
    /\ write_offset' = MmapLen
    /\ wpc' = "dropped"
    /\ UNCHANGED <<lockFile, kwrite, wop, wres, log, now, rvars, xvars>>

\* SystemTime::now() advances
Tick ==
    /\ now < MaxTime
    /\ now' = now + 1
    /\ UNCHANGED <<wvars, rvars, xvars>>

(* ------------------------------- readers ------------------------------- *)
\* faulty record_failure: the failure is returned and not kept
M37_record_failure(fail, f) == fail

\* ShmReader::record_failure: the new value of self.failure
record_failure(fail, f) == IF fail = None THEN f ELSE fail

\* faulty cursor: a reader that skips the slot behind a record
M36_next_index(idx, rec_len) == idx + align(REC_HEADER_LEN + rec_len) + U64_SIZE

\* faulty cursor: a reader that does not advance past a record
M1_next_index(idx, rec_len) == idx

\* faulty cursor: a reader that advances without the padding
M7_next_index(idx, rec_len) == idx + REC_HEADER_LEN + rec_len

\* try_read: self.read_index += align(REC_HEADER_LEN + rec_len)
next_index(idx, rec_len) == idx + align(REC_HEADER_LEN + rec_len)

\* faulty slice: the record is taken from its header on
M3_record_ptr(crt_index) == crt_index

\* try_read: self.data_ptr.add(crt_index + REC_HEADER_LEN), as an offset
record_ptr(crt_index) == crt_index + REC_HEADER_LEN

\* ShmReader::try_read on memory m with self.read_index = idx and
\* self.failure = fail: the new fields and the result
ShmReader_try_read(m, idx, fail) ==
    LET rec_len == load_atomic_u64(m, idx)
    IN  IF LeqU64(rec_len, MaxMsgLen)
        THEN [read_index |-> next_index(idx, Low16(rec_len)),
              failure    |-> fail,
              res        |-> Record(idx, SliceOf(m, record_ptr(idx), Low16(rec_len)))]
        ELSE IF rec_len = WATERMARK
        THEN [read_index |-> idx, failure |-> fail, res |-> Nothing]
        ELSE IF rec_len = CLOSE
        THEN [read_index |-> idx, failure |-> record_failure(fail, Closed), res |-> Err(Closed)]
        ELSE [read_index |-> idx, failure |-> record_failure(fail, Failed), res |-> Err(Failed)]

\* faulty exhausted: the decorator forgets its own timeout
M4_TimeoutReader_exhausted(fail, exp) == fail

\* TimeoutReader::exhausted: self.inner.exhausted().or_else(|| self.expired)
TimeoutReader_exhausted(fail, exp) == IF fail # None THEN fail ELSE exp

\* faulty latch: the timeout is returned and not remembered
M17_TimeoutReader_latch(expn) == None

\* TimeoutReader::try_read: self.expired = Some(Timeout(self.expiration))
TimeoutReader_latch(expn) == Timeout(expn)

\* faulty deadline: the timeout interval is left out
M16_TimeoutReader_deadline(t) == t

\* TimeoutReader::try_read: self.tick.nix_time() + self.to_interval
TimeoutReader_deadline(t) == t + TimeoutTicks

\* faulty reset: a slot that was read leaves the deadline as it is
M38_TimeoutReader_reset(expn) == expn

\* TimeoutReader::try_read, after the inner reader returned a slot:
\* self.expiration = END_OF_TIME
TimeoutReader_reset(expn) == END_OF_TIME

\* TimeoutReader::try_read at clock value t: the new fields and the result
TimeoutReader_try_read(m, idx, fail, expn, exp, t) ==
    IF TimeoutReader_exhausted(fail, exp) # None
    THEN [read_index |-> idx, failure |-> fail, expiration |-> expn, expired |-> exp,
          res |-> Err(TimeoutReader_exhausted(fail, exp))]
    ELSE LET in == ShmReader_try_read(m, idx, fail)
         IN  IF in.res.kind = "Err"
             THEN [read_index |-> in.read_index, failure |-> in.failure,
                   expiration |-> expn, expired |-> exp, res |-> in.res]
             ELSE IF in.res.kind = "Nothing"
             THEN IF expn = END_OF_TIME
                  THEN [read_index |-> in.read_index, failure |-> in.failure,
                        expiration |-> TimeoutReader_deadline(t), expired |-> exp,
                        res |-> Nothing]
                  ELSE IF expn <= t
                  THEN [read_index |-> in.read_index, failure |-> in.failure,
                        expiration |-> expn, expired |-> TimeoutReader_latch(expn),
                        res |-> Err(Timeout(expn))]
                  ELSE [read_index |-> in.read_index, failure |-> in.failure,
                        expiration |-> expn, expired |-> exp, res |-> Nothing]
             ELSE [read_index |-> in.read_index, failure |-> in.failure,
                   expiration |-> TimeoutReader_reset(expn), expired |-> exp,
                   res |-> in.res]

\* Reader::exhausted of reader r
exhausted(r) ==
    IF r \in TimeoutReaders THEN TimeoutReader_exhausted(failure[r], expired[r])
    ELSE failure[r]

\* shm_reader: the file exists and the lock file does not; ShmReader::new,
\* and shm_timeout_reader for the decorated one
shm_reader(r) ==
    /\ ~opened[r]
    /\ ~lockFile
    /\ opened' = [opened EXCEPT ![r] = TRUE]
    /\ read_index' = [read_index EXCEPT ![r] = 0]
    /\ failure' = [failure EXCEPT ![r] = None]
    /\ expiration' = [expiration EXCEPT ![r] = END_OF_TIME]
    /\ expired' = [expired EXCEPT ![r] = None]
    /\ UNCHANGED <<wvars, now, rres, got, first_err, err_polls, empty_since, xvars>>

\* Reader::try_read of reader r: what it does to the reader
try_read_step(r) ==
    /\ opened[r]
    /\ LET out == IF r \in TimeoutReaders
                  THEN TimeoutReader_try_read(mem, read_index[r], failure[r],
                                              expiration[r], expired[r], now)
                  ELSE ShmReader_try_read(mem, read_index[r], failure[r])
                       @@ [expiration |-> expiration[r], expired |-> expired[r]]
       IN  /\ read_index' = [read_index EXCEPT ![r] = out.read_index]
           /\ failure' = [failure EXCEPT ![r] = out.failure]
           /\ expiration' = [expiration EXCEPT ![r] = out.expiration]
           /\ expired' = [expired EXCEPT ![r] = out.expired]
           /\ rres' = [rres EXCEPT ![r] = out.res]
           /\ got' = [got EXCEPT ![r] = IF out.res.kind = "Record"
                                        THEN Append(@, [off |-> out.res.off,
                                                        data |-> out.res.data])
                                        ELSE @]
           /\ first_err' = [first_err EXCEPT ![r] = IF @ = None /\ out.res.kind = "Err"
                                                    THEN out.res.err ELSE @]
           /\ err_polls' = [err_polls EXCEPT ![r] = IF first_err[r] # None /\ @ < 1
                                                    THEN @ + 1 ELSE @]
           /\ empty_since' = [empty_since EXCEPT ![r] =
                                  IF r \notin TimeoutReaders THEN @
                                  ELSE IF out.res.kind = "Record" THEN END_OF_TIME
                                  ELSE IF out.res = Nothing /\ @ = END_OF_TIME THEN now
                                  ELSE @]
    /\ UNCHANGED <<wvars, now, opened>>

\* Reader::try_read of reader r, called directly
try_read(r) == try_read_step(r) /\ UNCHANGED xvars

\* faulty test of TryIter::next: the reader is polled whatever its state
M15_TryIter_live(r) == TRUE

\* TryIter::next, its test: self.inner.exhausted().is_none()
TryIter_live(r) == exhausted(r) = None

\* TryIter::size_hint: (lower bound, upper bound), the upper bound an
\* Option<usize> written as the set of its values
TryIter_size_hint(r) ==
    IF exhausted(r) = None THEN <<0, {}>> ELSE <<0, {0}>>

\* TryIter::next of the iterator over reader r: what it does to the reader
\* and to the iterator
TryIter_next_step(r) ==
    /\ opened[r]
    /\ IF TryIter_live(r)
       THEN /\ try_read_step(r)
            /\ iter_res' = [iter_res EXCEPT ![r] = IterSome(rres'[r])]
            /\ iter_fails' = [iter_fails EXCEPT ![r] =
                                 IF rres'[r].kind = "Err" /\ @ < MaxFails THEN @ + 1 ELSE @]
       ELSE /\ iter_res' = [iter_res EXCEPT ![r] = IterNone]
            /\ UNCHANGED <<wvars, now, rvars, iter_fails>>

\* TryIter::next, called by the owner of the iterator
TryIter_next(r) == TryIter_next_step(r) /\ UNCHANGED <<hvars, tvars, yvars>>

\* faulty RetryIter::next: an empty channel is polled for ever
M40_RetryIter_gives_up(step) == FALSE

\* RetryIter::next, the inner next() returned Some(Nothing):
\* if backoff.is_completed()
RetryIter_gives_up(step) == Backoff_is_completed(step)

\* RetryIter::next of the iterator over reader r, one turn of its loop: the
\* first turn of a call starts with Backoff::new(); a turn that does not
\* return snoozes and leaves the call in its loop
RetryIter_next(r) ==
    LET first == ri_pc[r] = "idle"
        step  == IF first THEN 0 ELSE ri_step[r]
    IN  /\ TryIter_next_step(r)
        /\ ri_polls' = [ri_polls EXCEPT ![r] = IF first THEN 1 ELSE @ + 1]
        /\ LET res == iter_res'[r]
           IN  IF res = IterSome(Nothing) /\ ~RetryIter_gives_up(step)
               THEN /\ ri_step' = [ri_step EXCEPT ![r] = Backoff_snooze(step)]
                    /\ ri_pc' = [ri_pc EXCEPT ![r] = "loop"]
                    /\ ri_res' = [ri_res EXCEPT ![r] = IterNoCall]
                    /\ UNCHANGED ri_got
               ELSE /\ ri_step' = [ri_step EXCEPT ![r] = step]
                    /\ ri_pc' = [ri_pc EXCEPT ![r] = "idle"]
                    /\ ri_res' = [ri_res EXCEPT ![r] = res]
                    /\ ri_got' = [ri_got EXCEPT ![r] =
                                     IF res.kind = "Record"
                                     THEN Append(@, [off |-> res.off, data |-> res.data])
                                     ELSE @]
        /\ UNCHANGED <<hvars, tvars, cvars, mvars, pvars, gvars, zvars>>

\* One writer, the clock, and a TimeoutReader read through RetryIter only
RetryIterNext ==
    \/ ShmWriter_new
    \/ RemoveLock
    \/ \E data \in Encodables : write(data)
    \/ heartbeat
    \/ StoreFirst
    \/ StoreSecond
    \/ drop
    \/ Tick
    \/ \E r \in TimeoutReaders : shm_reader(r)
    \/ \E r \in TimeoutReaders : RetryIter_next(r)

\* the thread that called next() keeps running its loop
RetryIterSpec ==
    Init /\ [][RetryIterNext]_vars /\ \A r \in TimeoutReaders : WF_vars(RetryIter_next(r))

Next ==
    \/ ShmWriter_new
    \/ RemoveLock
    \/ \E data \in Encodables : write(data)
    \/ heartbeat
    \/ StoreFirst
    \/ StoreSecond
    \/ drop
    \/ Tick
    \/ \E r \in Readers : shm_reader(r)
    \/ \E r \in Readers : try_read(r)

Spec == Init /\ [][Next]_vars

\* One writer and one ShmReader that keeps polling: the reader's loop
\* (for msg in reader.try_iter(), RetryIter) calls try_read again and again.
LiveNext ==
    \/ ShmWriter_new
    \/ RemoveLock
    \/ \E data \in Encodables : write(data)
    \/ heartbeat
    \/ StoreFirst
    \/ StoreSecond
    \/ drop
    \/ shm_reader("r1")
    \/ try_read("r1")

LiveSpec == Init /\ [][LiveNext]_vars /\ WF_vars(try_read("r1"))

\* One writer and two readers that are read through their iterators only
\* (for msg in reader.try_iter()).
IterNext ==
    \/ ShmWriter_new
    \/ RemoveLock
    \/ \E data \in Encodables : write(data)
    \/ heartbeat
    \/ StoreFirst
    \/ StoreSecond
    \/ drop
    \/ Tick
    \/ \E r \in Readers : shm_reader(r)
    \/ \E r \in Readers : TryIter_next(r)

IterSpec == Init /\ [][IterNext]_vars

\* One writer and the TimeoutReader, read by try_read and through its
\* iterator in any order.
TimeoutNext ==
    \/ ShmWriter_new
    \/ RemoveLock
    \/ \E data \in Encodables : write(data)
    \/ heartbeat
    \/ StoreFirst
    \/ StoreSecond
    \/ drop
    \/ Tick
    \/ shm_reader("r2")
    \/ try_read("r2")
    \/ TryIter_next("r2")

TimeoutSpec == Init /\ [][TimeoutNext]_vars

(* ------------------- threads sharing a RetryWriter --------------------- *)
\* RetryWriter::write of thread t, one turn of its loop: try_lock, and when
\* the writer is held by another thread either Err(Wait) or snooze.  The
\* thread's own loop calls write again after Wait, with a new Backoff.
RetryWriter_try_lock(t) ==
    /\ ~lockFile
    /\ tpc[t] = "try"
    /\ attempts' = [attempts EXCEPT ![t] = IF bstep[t] = 0 THEN 1
                                           ELSE IF @ <= YIELD_LIMIT + 2 THEN @ + 1 ELSE @]
    /\ IF holder = NoThread
       THEN /\ holder' = t
            /\ tpc' = [tpc EXCEPT ![t] = "locked"]
            /\ tres' = [tres EXCEPT ![t] = "none"]
            /\ UNCHANGED bstep
       ELSE IF RetryWriter_gives_up(bstep[t])
       THEN /\ tres' = [tres EXCEPT ![t] = "Wait"]
            /\ bstep' = [bstep EXCEPT ![t] = 0]
            /\ UNCHANGED <<holder, tpc>>
       ELSE /\ bstep' = [bstep EXCEPT ![t] = Backoff_snooze(@)]
            /\ tres' = [tres EXCEPT ![t] = "none"]
            /\ UNCHANGED <<holder, tpc>>
    /\ UNCHANGED <<done, wvars, now, rvars, ivars, hvars, yvars>>

\* RetryWriter::write, try_lock returned the guard: writer.write(data)
RetryWriter_inner_write(t) ==
    /\ tpc[t] = "locked"
    /\ write_step(Plain(ThreadData(t)))
    /\ tpc' = [tpc EXCEPT ![t] = "writing"]
    /\ UNCHANGED <<holder, bstep, tres, attempts, done, ivars, hvars, yvars>>

\* RetryWriter::write returns what the inner write returned and the guard
\* is dropped; the thread's loop goes on after Ok and panics on an error
RetryWriter_return(t) ==
    /\ tpc[t] = "writing"
    /\ wpc = "idle"
    /\ holder' = NoThread
    /\ tres' = [tres EXCEPT ![t] = wres.res]
    /\ bstep' = [bstep EXCEPT ![t] = 0]
    /\ done' = [done EXCEPT ![t] = IF wres.res = "Ok" THEN @ + 1 ELSE @]
    /\ tpc' = [tpc EXCEPT ![t] = IF wres.res # "Ok" THEN "panic"
                                  ELSE IF done[t] + 1 >= WritesEach THEN "joined"
                                  ELSE "try"]
    /\ UNCHANGED <<attempts, wvars, now, rvars, ivars, hvars, yvars>>

RetryNext ==
    \/ ShmWriter_new
    \/ StoreFirst
    \/ StoreSecond
    \/ RemoveLock
    \/ \E t \in Threads : RetryWriter_try_lock(t)
    \/ \E t \in Threads : RetryWriter_inner_write(t)
    \/ \E t \in Threads : RetryWriter_return(t)
    \/ shm_reader("r1")
    \/ try_read("r1")

\* The threads of test::retry_write and one ShmReader, which the test opens
\* after the threads are joined and which here reads at any time.
RetrySpec == Init /\ [][RetryNext]_vars

(* -------------------- creating and opening a channel ------------------- *)
\* the file process c has opened is the one at the path
Mine(c) == kfile.exists /\ kfile.gen = cgen[c]

\* shm_writer returns early with an error (the ? operator)
shm_writer_fails(c, err) ==
    /\ cpc' = [cpc EXCEPT ![c] = "done"]
    /\ cres' = [cres EXCEPT ![c] = err]

\* shm_writer: if kek_file_path.exists() return Err(StorageAlreadyExists)
shm_writer_exists(c) ==
    /\ cpc[c] = "start"
    /\ IF kfile.exists
       THEN shm_writer_fails(c, "StorageAlreadyExists")
       ELSE cpc' = [cpc EXCEPT ![c] = "mkdir"] /\ UNCHANGED cres
    /\ UNCHANGED <<kfile, klock, cgen, opc, tries_left, ores, ofinal, oview,
                   otries, ocalls, oslept, oseen, core_vars, mvars, pvars, gvars, zvars, qvars>>

\* shm_writer: DirBuilder::create of the parent folder
shm_writer_mkdir(c) ==
    /\ cpc[c] = "mkdir"
    /\ \E ok \in BOOLEAN :
          IF ok THEN cpc' = [cpc EXCEPT ![c] = "lock"] /\ UNCHANGED cres
          ELSE shm_writer_fails(c, "CouldNotAccessStorage")
    /\ UNCHANGED <<kfile, klock, cgen, opc, tries_left, ores, ofinal, oview,
                   otries, ocalls, oslept, oseen, core_vars, mvars, pvars, gvars, zvars, qvars>>

\* shm_writer: OpenOptions write, create on kek_lock_path
shm_writer_lock(c) ==
    /\ cpc[c] = "lock"
    /\ \E ok \in BOOLEAN :
          IF ok THEN /\ klock' = TRUE
                     /\ cpc' = [cpc EXCEPT ![c] = "file"]
                     /\ UNCHANGED cres
          ELSE shm_writer_fails(c, "CouldNotAccessStorage") /\ UNCHANGED klock
    /\ UNCHANGED <<kfile, cgen, opc, tries_left, ores, ofinal, oview,
                   otries, ocalls, oslept, oseen, core_vars, mvars, pvars, gvars, zvars, qvars>>

\* shm_writer: OpenOptions write, read, create on kek_file_path: a file
\* that is there is opened as it is
shm_writer_file(c) ==
    /\ cpc[c] = "file"
    /\ \E ok \in BOOLEAN :
          IF ok THEN /\ kfile' = IF kfile.exists THEN kfile ELSE NewFile(kfile.gen + 1)
                     /\ cgen' = [cgen EXCEPT ![c] = kfile'.gen]
                     /\ cpc' = [cpc EXCEPT ![c] = "set_len"]
                     /\ UNCHANGED cres
          ELSE shm_writer_fails(c, "CouldNotAccessStorage") /\ UNCHANGED <<kfile, cgen>>
    /\ UNCHANGED <<klock, opc, tries_left, ores, ofinal, oview,
                   otries, ocalls, oslept, oseen, core_vars, mvars, pvars, gvars, zvars, qvars>>

\* shm_writer: kek_file.set_len(total_len)
shm_writer_set_len(c) ==
    /\ cpc[c] = "set_len"
    /\ \E ok \in BOOLEAN :
          IF ok THEN /\ kfile' = IF Mine(c) THEN [kfile EXCEPT !.sized = TRUE] ELSE kfile
                     /\ cpc' = [cpc EXCEPT ![c] = "mmap"]
                     /\ UNCHANGED cres
          ELSE shm_writer_fails(c, "CouldNotAccessStorage") /\ UNCHANGED kfile
    /\ UNCHANGED <<klock, cgen, opc, tries_left, ores, ofinal, oview,
                   otries, ocalls, oslept, oseen, core_vars, mvars, pvars, gvars, zvars, qvars>>

\* shm_writer: MmapOptions::map_mut
shm_writer_mmap(c) ==
    /\ cpc[c] = "mmap"
    /\ \E ok \in BOOLEAN :
          IF ok THEN cpc' = [cpc EXCEPT ![c] = "write_to"] /\ UNCHANGED cres
          ELSE shm_writer_fails(c, "MemoryMappingFailed")
    /\ UNCHANGED <<kfile, klock, cgen, opc, tries_left, ores, ofinal, oview,
                   otries, ocalls, oslept, oseen, core_vars, mvars, pvars, gvars, zvars, qvars>>

\* shm_writer: metadata.write_to(buf)
shm_writer_write_to(c) ==
    /\ cpc[c] = "write_to"
    /\ kfile' = IF Mine(c) THEN [kfile EXCEPT !.meta = TRUE] ELSE kfile
    /\ cpc' = [cpc EXCEPT ![c] = "flush"]
    /\ UNCHANGED <<klock, cres, cgen, opc, tries_left, ores, ofinal, oview,
                   otries, ocalls, oslept, oseen, core_vars, mvars, pvars, gvars, zvars, qvars>>

\* shm_writer: mmap.flush()
shm_writer_flush(c) ==
    /\ cpc[c] = "flush"
    /\ \E ok \in BOOLEAN :
          IF ok THEN cpc' = [cpc EXCEPT ![c] = "new"] /\ UNCHANGED cres
          ELSE shm_writer_fails(c, "AccessError")
    /\ UNCHANGED <<kfile, klock, cgen, opc, tries_left, ores, ofinal, oview,
                   otries, ocalls, oslept, oseen, core_vars, mvars, pvars, gvars, zvars, qvars>>

\* shm_writer: ShmWriter::new, which reads the metadata back and publishes
\* the first heartbeat, or fails
shm_writer_new(c) ==
    /\ cpc[c] = "new"
    /\ \E ok \in BOOLEAN :
          IF ok THEN /\ kfile' = IF Mine(c) THEN [kfile EXCEPT !.marker = TRUE] ELSE kfile
                     /\ cpc' = [cpc EXCEPT ![c] = "remove_lock"]
          ELSE /\ cpc' = [cpc EXCEPT ![c] = "remove_file"]
               /\ UNCHANGED kfile
    /\ UNCHANGED <<klock, cres, cgen, opc, tries_left, ores, ofinal, oview,
                   otries, ocalls, oslept, oseen, core_vars, mvars, pvars, gvars, zvars, qvars>>

\* shm_writer, res.is_err(): remove_file(&kek_file_path).expect(..)
shm_writer_remove_file(c) ==
    /\ cpc[c] = "remove_file"
    /\ IF kfile.exists
       THEN /\ kfile' = [NoFile EXCEPT !.gen = kfile.gen]
            /\ cpc' = [cpc EXCEPT ![c] = "remove_lock_err"]
            /\ UNCHANGED cres
       ELSE shm_writer_fails(c, "panic") /\ UNCHANGED kfile
    /\ UNCHANGED <<klock, cgen, opc, tries_left, ores, ofinal, oview,
                   otries, ocalls, oslept, oseen, core_vars, mvars, pvars, gvars, zvars, qvars>>

\* shm_writer: remove_file(&kek_lock_path).expect(..), then res
shm_writer_remove_lock(c) ==
    /\ cpc[c] \in {"remove_lock", "remove_lock_err"}
    /\ IF klock
       THEN /\ klock' = FALSE
            /\ shm_writer_fails(c, IF cpc[c] = "remove_lock" THEN "Ok" ELSE "AccessError")
       ELSE shm_writer_fails(c, "panic") /\ UNCHANGED klock
    /\ UNCHANGED <<kfile, cgen, opc, tries_left, ores, ofinal, oview,
                   otries, ocalls, oslept, oseen, core_vars, mvars, pvars, gvars, zvars, qvars>>

\* try_shm_reader(root_path, channel_id, duration_millis, tries): its first
\* call of shm_reader begins
try_shm_reader(o, tries) ==
    /\ opc[o] = "idle"
    /\ tries > 0
    /\ tries_left' = [tries_left EXCEPT ![o] = tries]
    /\ otries' = [otries EXCEPT ![o] = tries]
    /\ ocalls' = [ocalls EXCEPT ![o] = 1]
    /\ opc' = [opc EXCEPT ![o] = "check_file"]
    /\ UNCHANGED <<kfile, klock, cpc, cres, cgen, ores, ofinal, oview, oslept, oseen,
                   core_vars, mvars, pvars, gvars, zvars, qvars>>

\* shm_reader returns res to try_shm_reader: while reader_res.is_err() &&
\* tries_left > 0 { sleep; shm_reader again; tries_left -= 1 }, else return
shm_reader_returns(o, res) ==
    /\ ores' = [ores EXCEPT ![o] = res]
    /\ oseen' = [oseen EXCEPT ![o] = @ \cup {res}]
    /\ IF res # "Ok" /\ tries_left[o] > 0
       THEN /\ oslept' = [oslept EXCEPT ![o] =
                             @ + try_shm_reader_interval(DurationMs, otries[o])]
            /\ ocalls' = [ocalls EXCEPT ![o] = @ + 1]
            /\ tries_left' = [tries_left EXCEPT ![o] = @ - 1]
            /\ opc' = [opc EXCEPT ![o] = "check_file"]
            /\ UNCHANGED ofinal
       ELSE /\ ofinal' = [ofinal EXCEPT ![o] = res]
            /\ opc' = [opc EXCEPT ![o] = "done"]
            /\ UNCHANGED <<oslept, ocalls, tries_left>>

\* shm_reader: the test of kek_file_path.exists()
shm_reader_check_file(o) ==
    /\ opc[o] = "check_file"
    /\ IF shm_reader_not_found(kfile.exists)
       THEN shm_reader_returns(o, "StorageNotFound")
       ELSE /\ opc' = [opc EXCEPT ![o] = "check_lock"]
            /\ UNCHANGED <<tries_left, ores, ofinal, ocalls, oslept, oseen>>
    /\ UNCHANGED <<kfile, klock, cpc, cres, cgen, oview, otries, core_vars, mvars, pvars, gvars, zvars, qvars>>

\* shm_reader: the test of kek_lock_path.exists()
shm_reader_check_lock(o) ==
    /\ opc[o] = "check_lock"
    /\ IF shm_reader_not_ready(klock)
       THEN shm_reader_returns(o, "StorageNotReady")
       ELSE /\ opc' = [opc EXCEPT ![o] = "open"]
            /\ UNCHANGED <<tries_left, ores, ofinal, ocalls, oslept, oseen>>
    /\ UNCHANGED <<kfile, klock, cpc, cres, cgen, oview, otries, core_vars, mvars, pvars, gvars, zvars, qvars>>

\* shm_reader: open the file, map it, ShmReader::new: Metadata::read on the
\* mapped bytes, read_index: 0
shm_reader_open(o) ==
    /\ opc[o] = "open"
    /\ IF ~kfile.exists
       THEN shm_reader_returns(o, "CouldNotAccessStorage") /\ UNCHANGED oview
       ELSE IF ~kfile.sized
       THEN shm_reader_returns(o, "MemoryMappingFailed") /\ UNCHANGED oview
       ELSE IF ~kfile.meta
       THEN shm_reader_returns(o, "InvalidSignature") /\ UNCHANGED oview
       ELSE /\ shm_reader_returns(o, "Ok")
            /\ oview' = [oview EXCEPT ![o] = [opened |-> TRUE, meta |-> kfile.meta,
                                               marker |-> kfile.marker, read_index |-> 0]]
    /\ UNCHANGED <<kfile, klock, cpc, cres, cgen, otries, core_vars, mvars, pvars, gvars, zvars, qvars>>

\* the steps of shm_writer called by process c
shm_writer(c) ==
    \/ shm_writer_exists(c)
    \/ shm_writer_mkdir(c)
    \/ shm_writer_lock(c)
    \/ shm_writer_file(c)
    \/ shm_writer_set_len(c)
    \/ shm_writer_mmap(c)
    \/ shm_writer_write_to(c)
    \/ shm_writer_flush(c)
    \/ shm_writer_new(c)
    \/ shm_writer_remove_file(c)
    \/ shm_writer_remove_lock(c)

\* the steps of shm_reader called by process o
shm_reader_steps(o) ==
    \/ shm_reader_check_file(o)
    \/ shm_reader_check_lock(o)
    \/ shm_reader_open(o)

\* One process creates the channel while others try to open it.
CreateNext ==
    \/ shm_writer("c1")
    \/ \E o \in Openers, tries \in 1..MaxTries : try_shm_reader(o, tries)
    \/ \E o \in Openers : shm_reader_steps(o)

CreateSpec == Init /\ [][CreateNext]_vars

\* Two processes create the same channel, at the same time or one after the
\* other, while another tries to open it.
RaceNext ==
    \/ \E c \in Creators : shm_writer(c)
    \/ \E tries \in 1..MaxTries : try_shm_reader("o1", tries)
    \/ shm_reader_steps("o1")

RaceSpec == Init /\ [][RaceNext]_vars

(* ------------------------- metadata round trip ------------------------- *)
\* Metadata::new(..) with arguments of the caller's choice
Meta_new ==
    /\ ~md.made
    /\ block = <<>>
    /\ \E capacity_hint \in CapacityHints, max_msg_len_hint \in MaxMsgLenHints,
          channel_id \in Ids, timeout \in Timeouts, tick_unit \in TickUnits :
          md' = Metadata_new(ToLe(111), channel_id, capacity_hint, max_msg_len_hint,
                             timeout, tick_unit, ToLe(now))
    /\ UNCHANGED <<block, rd, core_vars, cvars, pvars, gvars, zvars, qvars>>

\* metadata.write_to(block), whatever the block held
Meta_write_to ==
    /\ md.made
    /\ block = <<>>
    /\ \E old \in OldBlocks : block' = Metadata_write_to(md, old)
    /\ UNCHANGED <<md, rd, core_vars, cvars, pvars, gvars, zvars, qvars>>

\* a block that did not come from this Metadata::new: a written block in
\* which one field holds something else
Meta_foreign ==
    /\ block # <<>>
    /\ rd = NoRead
    /\ md.made
    /\ md' = NoMetadata
    /\ \/ \E sig \in Signatures : block' = sig \o SubSeq(block, 9, METADATA_LEN)
       \/ \E v \in Versions :
             block' = SubSeq(block, 1, 8) \o v \o SubSeq(block, 17, METADATA_LEN)
       \/ \E c \in Capacities, l \in MaxMsgLens :
             block' = SubSeq(block, 1, 32) \o u32_to_le_bytes(c) \o u32_to_le_bytes(l)
                      \o SubSeq(block, 41, METADATA_LEN)
    /\ UNCHANGED <<rd, core_vars, cvars, pvars, gvars, zvars, qvars>>

\* Metadata::read(block)
Meta_read ==
    /\ block # <<>>
    /\ rd = NoRead
    /\ rd' = Metadata_read(block)
    /\ UNCHANGED <<md, block, core_vars, cvars, pvars, gvars, zvars, qvars>>

MetaNext ==
    \/ Meta_new
    \/ Meta_write_to
    \/ Meta_foreign
    \/ Meta_read

MetaSpec == Init /\ [][MetaNext]_vars

(* ---------------------------- storage paths ---------------------------- *)
\* a call of storage_path, and the lock path shm_writer and shm_reader derive
Path_call ==
    /\ Cardinality(paths) < MaxPaths
    /\ \E root_path \in Roots, channel_id \in ChannelIds :
          LET path == storage_path(root_path, channel_id)
          IN  paths' = paths \cup {[root |-> root_path, id |-> channel_id,
                                    path |-> path, lock |-> kek_lock_path(path)]}
    /\ UNCHANGED <<core_vars, cvars, mvars, gvars, zvars, qvars>>

PathNext == Path_call

PathSpec == Init /\ [][PathNext]_vars

(* --------------------- a writer on a file of real size ----------------- *)
\* ShmWriter::new: the first heartbeat
File_new ==
    /\ g_pc = "new"
    /\ g_stores' = {data_ptr + g_offset + REC_HEADER_LEN, data_ptr + g_offset}
    /\ g_offset' = g_offset + REC_HEADER_LEN
    /\ g_pc' = "idle"
    /\ UNCHANGED <<core_vars, cvars, mvars, pvars, zvars, qvars>>

\* ShmWriter::write of a message of total bytes: the stores of write_metadata
File_write ==
    /\ g_pc = "idle"
    /\ \E total \in MsgLens :
          LET avail == ShmWriter_available(FileCapacity, g_offset)
              len == Min(FileMaxMsgLen, avail - REC_HEADER_LEN)
              aligned_rec_len == align(total + REC_HEADER_LEN)
          IN  IF channel_full(avail) \/ total > len
              THEN g_stores' = {} /\ UNCHANGED g_offset
              ELSE /\ g_stores' = {data_ptr + g_offset + aligned_rec_len,
                                   data_ptr + g_offset}
                   /\ g_offset' = g_offset + aligned_rec_len
    /\ UNCHANGED <<g_pc, core_vars, cvars, mvars, pvars, zvars, qvars>>

\* ShmWriter::heartbeat
File_heartbeat ==
    /\ g_pc = "idle"
    /\ IF channel_full(ShmWriter_available(FileCapacity, g_offset))
       THEN g_stores' = {} /\ UNCHANGED g_offset
       ELSE /\ g_stores' = {data_ptr + g_offset + REC_HEADER_LEN, data_ptr + g_offset}
            /\ g_offset' = g_offset + REC_HEADER_LEN
    /\ UNCHANGED <<g_pc, core_vars, cvars, mvars, pvars, zvars, qvars>>

\* Drop for ShmWriter: CLOSE at the write cursor
File_drop ==
    /\ g_pc = "idle"
    /\ g_stores' = {data_ptr + g_offset}
    /\ g_pc' = "dropped"
    /\ UNCHANGED <<g_offset, core_vars, cvars, mvars, pvars, zvars, qvars>>

FileNext ==
    \/ File_new
    \/ File_write
    \/ File_heartbeat
    \/ File_drop

FileSpec == Init /\ [][FileNext]_vars

(* ------------------------ a channel tampered with ---------------------- *)
\* markers that are no length, no WATERMARK and no CLOSE: max_msg_len + 1,
\* 2^32, WATERMARK - 1
BadMarkers == {ToLe(MaxMsgLen + 1), <<0, 0, 0, 0, 1, 0, 0, 0>>,
               <<16, 17, 17, 17, 255, 255, 255, 255>>}

\* the file is mapped writable by every process that opens it (map_mut in
\* shm_reader): one of them stores a word into a slot of the data region
Tamper ==
    /\ ~tampered
    /\ ~lockFile
    /\ tampered' = TRUE
    /\ \E slot \in 0..CapSlots, word \in BadMarkers :
          mem' = store_atomic_u64(mem, slot * U64_SIZE, word)
    /\ UNCHANGED <<lockFile, wpc, write_offset, kwrite, wop, wres, log, close_index,
                   now, rvars, ivars, hvars, tvars, cvars, mvars, pvars, gvars, qvars>>

\* One writer, one ShmReader that polls, and one tampering at most.
TamperNext ==
    \/ ShmWriter_new
    \/ RemoveLock
    \/ \E data \in Encodables : write(data)
    \/ heartbeat
    \/ StoreFirst
    \/ StoreSecond
    \/ drop
    \/ shm_reader("r1")
    \/ try_read("r1")
    \/ Tamper

TamperSpec == Init /\ [][TamperNext]_vars

(* --------------------------- handler chains ---------------------------- *)
\* the innermost handler of a chain
Handler_first(h) ==
    /\ h_chain = NoHandler
    /\ h_chain' = h
    /\ h_list' = <<h>>
    /\ UNCHANGED <<h_sink, wvars, now, rvars, ivars, tvars, yvars>>

\* ChainedHandler::link(chain so far, decorator)
Handler_link(decorator) ==
    /\ h_chain # NoHandler
    /\ ~h_sink.run
    /\ Len(h_list) < MaxChain
    /\ h_chain' = link(h_chain, decorator)
    /\ h_list' = Append(h_list, decorator)
    /\ UNCHANGED <<h_sink, wvars, now, rvars, ivars, tvars, yvars>>

\* chain.handle(data, sink) on an empty sink
Handler_run ==
    /\ h_chain # NoHandler
    /\ ~h_sink.run
    /\ h_sink' = Handler_handle(h_chain, EmptySink)
    /\ UNCHANGED <<h_chain, h_list, wvars, now, rvars, ivars, tvars, yvars>>

HandlerNext ==
    \/ \E h \in LeafHandlers : Handler_first(h)
    \/ \E d \in LeafHandlers : Handler_link(d)
    \/ Handler_run

HandlerSpec == Init /\ [][HandlerNext]_vars

(* ----------------------- the writer and its handler -------------------- *)
\* ShmWriter::write of a writer built with a handler: the handler pipeline
\* runs on a sink over the bytes behind the header of the next slot, capped
\* at min(max_msg_len, available - REC_HEADER_LEN); a failed pipeline returns
\* the error and stores no header; a pipeline that returned Ok publishes what
\* the sink took
Pipeline_write ==
    /\ wpc = "idle"
    /\ h_chain # NoHandler
    /\ IF channel_full(available)
       THEN /\ wres' = Outcome("write", "ChannelFull", 0)
            /\ UNCHANGED <<mem, kwrite, wop, wpc, h_sink>>
       ELSE LET len == Min(MaxMsgLen, available - REC_HEADER_LEN)
                w   == Handler_handle(h_chain, KekSink(len))
            IN  /\ h_sink' = w
                /\ mem' = copy_nonoverlapping(mem, payload_ptr(write_offset), w.bytes)
                /\ kwrite' = [KekWrite_reset(payload_ptr(write_offset), len)
                                 EXCEPT !.total = Len(w.bytes), !.failed = ~w.ok]
                /\ IF w.ok
                   THEN /\ wop' = [kind |-> "write",
                                   len |-> Len(w.bytes),
                                   aligned |-> align(Len(w.bytes) + REC_HEADER_LEN),
                                   data |-> w.bytes]
                        /\ wpc' = "meta1"
                        /\ UNCHANGED wres
                   ELSE /\ wres' = Outcome("write", "NoSpaceForRecord", 0)
                        /\ UNCHANGED <<wop, wpc>>
    /\ UNCHANGED <<lockFile, write_offset, log, close_index, now, rvars,
                   h_chain, h_list, ivars, tvars, yvars>>

\* a writer whose handler is an EncoderHandler wrapped in up to two
\* decorators, writing one of the payloads again and again, with heartbeats
\* in between
PipelineNext ==
    \/ ShmWriter_new
    \/ RemoveLock
    \/ heartbeat
    \/ StoreFirst
    \/ StoreSecond
    \/ \E p \in Payloads : Handler_first(EncoderHandler(p))
    \/ \E d \in LeafHandlers : Handler_link(d)
    \/ Pipeline_write

PipelineSpec == Init /\ [][PipelineNext]_vars

(* ------------------------------ properties ----------------------------- *)
\* the slots the writer has published with write (not heartbeats)
Written == SelectSeq(log, LAMBDA e : e.kind = "write")

\* the marker a published slot carries
MarkerOf(e) == ToLe(e.len)

\* the slot of the log that starts at offset o, as a set of indices
SlotsAt(o) == {i \in 1..Len(log) : log[i].off = o}

\* available() when the write cursor was at w
AvailAt(w) == ((Capacity - w) \div 8) * 8

WriteFailures == {"ChannelFull", "NoSpaceForRecord", "EncodingError"}

C2_PublishedSlotComplete ==
    \A r \in Readers :
        LET marker == load_atomic_u64(mem, read_index[r])
            L == Low16(marker)
            behind == load_atomic_u64(mem, next_index(read_index[r], L))
        IN  (opened[r] /\ LeqU64(marker, MaxMsgLen)) =>
                /\ \E i \in SlotsAt(read_index[r]) :
                      /\ log[i].len = L
                      /\ SliceOf(mem, record_ptr(read_index[r]), L) = log[i].data
                /\ \/ behind \in {WATERMARK, CLOSE}
                   \/ \E j \in SlotsAt(next_index(read_index[r], L)) :
                          behind = MarkerOf(log[j])

\* C2 witness: a reader stands on a published record it has not consumed,
\* the slot behind it still holds WATERMARK, and the writer is between the
\* payload copy and the stores of the next record
C2_Witness ==
    \E r \in Readers :
        LET marker == load_atomic_u64(mem, read_index[r])
        IN  /\ opened[r]
            /\ LeqU64(marker, MaxMsgLen)
            /\ Low16(marker) > 0
            /\ load_atomic_u64(mem, next_index(read_index[r], Low16(marker))) = WATERMARK
            /\ wpc = "meta1"
            /\ wop.kind = "write"

\* what a reader returns for the published slot e
Delivered(e) == [off |-> e.off, data |-> e.data]

\* C3, the writer's half: a plain write of a payload p that fits
\* (|p| <= max_msg_len, |p| <= available - 8) copies exactly p behind the
\* header and goes on to publish a record of length |p|; the publication
\* ends with Ok(align(8 + |p|)).
C3_WriteStep ==
    /\ \A p \in Payloads :
          (/\ write(Plain(p))
           /\ Len(p) <= MaxMsgLen
           /\ Len(p) <= available - REC_HEADER_LEN)
          => /\ wpc' = "meta1"
             /\ wop'.len = Len(p)
             /\ wop'.data = p
             /\ SliceOf(mem', write_offset + REC_HEADER_LEN, Len(p)) = p
    /\ (StoreSecond /\ wop.kind = "write")
          => /\ wres'.res = "Ok"
             /\ wres'.size = align(REC_HEADER_LEN + Len(wop.data))
             /\ log'[Len(log')].data = wop.data

\* C3, the reader's half: a record returned by try_read for a slot published
\* by write has the length and the bytes of the payload handed to write.
C3_ReadBack ==
    \A r \in Readers :
        rres[r].kind = "Record" =>
            \E i \in SlotsAt(rres[r].off) :
                log[i].kind = "write" =>
                    /\ Len(rres[r].data) = Len(log[i].data)
                    /\ rres[r].data = log[i].data

C5_ClosedAfterEverything ==
    \A r \in Readers :
        rres[r] = Err(Closed) =>
            /\ wpc = "dropped"
            /\ read_index[r] = close_index
            /\ Len(got[r]) = Len(log)
            /\ \A i \in 1..Len(log) : got[r][i] = Delivered(log[i])

\* C5 witness: both readers got Closed behind a written record
C5_Witness ==
    /\ rres["r1"] = Err(Closed)
    /\ rres["r2"] = Err(Closed)
    /\ Len(Written) >= 1
    /\ Len(log) >= 3

C7_Delivery ==
    /\ \A k \in 1..CapSlots :
          (opened["r1"] /\ Len(log) >= k)
              ~> (Len(got["r1"]) >= k /\ got["r1"][k] = Delivered(log[k]))
    /\ [][shm_reader("r1") => read_index'["r1"] = 0]_vars

\* C7 witness: the reader has returned every slot of a channel that holds
\* three slots or more and waits at the WATERMARK
C7_Witness ==
    /\ Len(log) >= 3
    /\ Len(Written) >= 1
    /\ Len(got["r1"]) = Len(log)
    /\ rres["r1"] = Nothing
    /\ wpc = "idle"

\* C8, between calls: after a failed write the cursor is where it was, the
\* marker at the cursor is WATERMARK, every published slot still holds its
\* marker and its bytes, and what the readers returned are published slots
\* only.
C8_Consistent ==
    wres.res \in WriteFailures =>
        /\ wpc \in {"idle", "meta1"} =>
              /\ write_offset = wres.at
              /\ load_atomic_u64(mem, write_offset) = WATERMARK
        /\ \A i \in 1..Len(log) :
              /\ load_atomic_u64(mem, log[i].off) = MarkerOf(log[i])
              /\ SliceOf(mem, record_ptr(log[i].off), log[i].len) = log[i].data
        /\ \A r \in Readers :
              /\ Len(got[r]) <= Len(log)
              /\ \A i \in 1..Len(got[r]) : got[r][i] = Delivered(log[i])

\* C8, the next call: the slot published after a failed write starts at
\* the cursor the failed write left.
C8_NextAtSameCursor ==
    (wres.res \in WriteFailures /\ Len(log') > Len(log))
        => log'[Len(log')].off = wres.at

\* C8: a failed write (ChannelFull, NoSpaceForRecord, EncodingError) leaves
\* the channel consistent and the next successful write lands at the same
\* cursor.
C8_FailedWriteLeavesChannel == []C8_Consistent /\ [][C8_NextAtSameCursor]_vars

\* C8 witness: after a failed write that left bytes behind the header,
\* the next write is being published at the same cursor while a reader
\* that polled there got Nothing
C8_Witness ==
    /\ wres.res \in {"NoSpaceForRecord", "EncodingError"}
    /\ wres.at = write_offset
    /\ wpc = "meta2"
    /\ wop.kind = "write"
    /\ \E r \in Readers :
          /\ opened[r]
          /\ read_index[r] = write_offset
          /\ rres[r] = Nothing

\* C9 as stated: every write whose encoded length exceeds
\* cap = min(max_msg_len, available - 8) on a channel that is not full
\* returns NoSpaceForRecord.
C9_OverflowIsNoSpaceForRecord ==
    [][\A data \in Encodables :
          (/\ write(data)
           /\ ~channel_full(available)
           /\ Len(Flatten(data.chunks)) > Min(MaxMsgLen, available - REC_HEADER_LEN))
          => wres'.res = "NoSpaceForRecord"]_vars

\* C10: a write or heartbeat returns ChannelFull exactly when available()
\* at the call is <= 8, and after one ChannelFull every later result is
\* ChannelFull.
C10_ChannelFullIffNoRoom ==
    /\ wres.op \in {"write", "heartbeat"} =>
          (wres.res = "ChannelFull" <=> AvailAt(wres.at) <= REC_HEADER_LEN)
    /\ wres.fulls > 0 => wres.res = "ChannelFull"

\* C10 witness: a second ChannelFull in a row, with exactly 8 bytes left
C10_Witness ==
    /\ wres.fulls = 2
    /\ wres.res = "ChannelFull"
    /\ AvailAt(wres.at) = REC_HEADER_LEN

RECURSIVE SumSizes(_)
\* the sum of ceil_8(8 + L) over the slots of a sequence of published slots
SumSizes(slots) ==
    IF slots = <<>> THEN 0
    ELSE align(REC_HEADER_LEN + Head(slots).len) + SumSizes(Tail(slots))

\* the slots published by the caller's write and heartbeat calls
CallerSlots == SelectSeq(log, LAMBDA e : e.kind # "new")

\* C11 as stated: the sizes of the successful writes and heartbeats plus 8
\* never exceed capacity, and every write whose aligned size would take
\* the sum beyond capacity returns NoSpaceForRecord or ChannelFull.
C11_CapacityAsStated ==
    /\ [](SumSizes(CallerSlots) + REC_HEADER_LEN <= Capacity)
    /\ [][\A data \in Encodables :
            (/\ write(data)
             /\ SumSizes(CallerSlots)
                    + align(REC_HEADER_LEN + Len(Flatten(data.chunks))) > Capacity)
            => wres'.res \in {"NoSpaceForRecord", "ChannelFull"}]_vars

C13_TailIsChannelFull ==
    [][\A r \in Readers :
          (try_read(r) /\ read_index[r] + REC_HEADER_LEN > Capacity)
          => /\ rres'[r] = Err(ChannelFull)
             /\ exhausted(r)' = ChannelFull]_vars

\* C14 as stated: a try_read of a live reader that finds a heartbeat
\* (marker 0) at its cursor returns no record, not even an empty one, and
\* moves the cursor past the slot, by 8 bytes.
C14_HeartbeatNotSurfaced ==
    [][\A r \in Readers :
          (/\ try_read(r)
           /\ exhausted(r) = None
           /\ load_atomic_u64(mem, read_index[r]) = ToLe(0))
          => /\ rres'[r].kind # "Record"
             /\ read_index'[r] = read_index[r] + REC_HEADER_LEN]_vars

\* C15: in IterSpec, where the readers are read through their iterators,
\* size_hint is (0, None) until the iterator has yielded a failure and
\* (0, Some(0)) from then on; next() yields Some(item) until the reader is
\* exhausted, the item is Failed(kind) exactly on the call that exhausts the
\* reader, with the kind the reader latched, and every later call returns None,
\* so that one iterator yields Failed once and no more.
C15_IteratorFused ==
    /\ [](\A r \in Readers :
            /\ iter_fails[r] <= 1
            /\ TryIter_size_hint(r) = IF iter_fails[r] = 0 THEN <<0, {}>> ELSE <<0, {0}>>)
    /\ [][\A r \in Readers :
            TryIter_next(r) =>
                IF iter_fails[r] = 0
                THEN /\ iter_res'[r].some
                     /\ iter_res'[r].kind = "Failed" <=> exhausted(r)' # None
                     /\ iter_res'[r].kind = "Failed" => iter_res'[r].err = exhausted(r)'
                ELSE /\ iter_res'[r] = IterNone
                     /\ UNCHANGED <<rvars, iter_fails>>]_vars

\* both iterators have yielded their failure, Closed for one and Timeout for
\* the other, and have been called once more
C15_Witness ==
    /\ iter_fails["r1"] = 1 /\ exhausted("r1") = Closed /\ iter_res["r1"] = IterNone
    /\ iter_fails["r2"] = 1 /\ exhausted("r2").kind = "Timeout" /\ iter_res["r2"] = IterNone
    /\ Len(got["r1"]) > 1

\* C16: a try_read of the TimeoutReader that is not yet exhausted returns
\* Timeout(d) exactly when the inner reader returns Nothing, a deadline is set
\* and the clock has reached it, and d is that deadline; the deadline is the
\* clock of the first empty poll since the last returned record plus the
\* timeout; an empty poll with no deadline sets it and returns Nothing; a
\* returned record unsets it.
C16_TimeoutWhenDue ==
    /\ [](\A r \in TimeoutReaders :
            expiration[r] = IF empty_since[r] = END_OF_TIME THEN END_OF_TIME
                            ELSE empty_since[r] + TimeoutTicks)
    /\ [][\A r \in TimeoutReaders :
            (try_read(r) /\ exhausted(r) = None) =>
                LET in == ShmReader_try_read(mem, read_index[r], failure[r])
                IN  /\ rres'[r] = Err(Timeout(expiration[r]))
                        <=> /\ in.res = Nothing
                            /\ expiration[r] # END_OF_TIME
                            /\ now >= expiration[r]
                    /\ rres'[r].kind = "Err" /\ rres'[r].err.kind = "Timeout"
                        => rres'[r].err.t = empty_since[r] + TimeoutTicks
                    /\ (in.res = Nothing /\ expiration[r] = END_OF_TIME)
                        => /\ rres'[r] = Nothing
                           /\ expiration'[r] = now + TimeoutTicks
                           /\ expired'[r] = None
                    /\ rres'[r].kind = "Record" => expiration'[r] = END_OF_TIME]_vars

\* the decorated reader returned a record, then timed out on a deadline set
\* by an empty poll after that record
C16_Witness ==
    /\ Len(got["r2"]) >= 1
    /\ rres["r2"] = Err(Timeout(empty_since["r2"] + TimeoutTicks))
    /\ now >= expiration["r2"]

\* C17: once try_read of the TimeoutReader has returned Timeout(d), no step
\* moves the position of its inner reader or adds to the records it has
\* returned, every try_read returns Timeout(d) again and every next() of its
\* iterator returns None.
C17_TimeoutMonotone ==
    [][\A r \in TimeoutReaders :
         first_err[r].kind = "Timeout" =>
             /\ read_index'[r] = read_index[r]
             /\ failure'[r] = None
             /\ got'[r] = got[r]
             /\ exhausted(r)' = first_err[r]
             /\ try_read(r) => rres'[r] = Err(first_err[r])
             /\ TryIter_next(r) => iter_res'[r] = IterNone]_vars

\* after the timeout the writer published a record, and the reader was then
\* polled both ways: it is still where it was
C17_Witness ==
    /\ first_err["r2"].kind = "Timeout"
    /\ err_polls["r2"] = 1
    /\ iter_res["r2"] = IterNone
    /\ read_index["r2"] < write_offset
    /\ \E i \in 1..Len(log) : log[i].off >= read_index["r2"] /\ log[i].kind = "write"

\* C18: when handle() of the chain of h1..hn (h1 innermost) returns Ok, the
\* sink holds what incoming of hn, ..., h1 wrote, in that order, followed by
\* what outgoing of h1, ..., hn wrote.
C18_ChainBalanced ==
    (h_sink.run /\ h_sink.ok) =>
        LET n == Len(h_list)
        IN  h_sink.bytes = Flatten([i \in 1..n |-> h_list[n + 1 - i].in])
                           \o Flatten([i \in 1..n |-> h_list[i].out])

\* three handlers with different outputs on the way in and on the way out
C18_Witness ==
    /\ h_sink.run /\ h_sink.ok
    /\ h_list = <<IdHandler(1), IdHandler(2), InHandler>>
    /\ Len(h_sink.bytes) = 5 * U64_SIZE

\* the records reader r has returned that carry the bytes d
GotOf(r, d) == Len(SelectSeq(got[r], LAMBDA e : e.data = d))

\* C19: when every thread has had its WritesEach successful writes and the
\* reader has read up to the writer's cursor, the reader has returned
\* exactly Threads * WritesEach records, WritesEach of them with each
\* thread's payload.
C19_ExactlyNM ==
    (/\ \A t \in Threads : tpc[t] = "joined"
     /\ opened["r1"] /\ read_index["r1"] = write_offset)
    => /\ Len(got["r1"]) = Cardinality(Threads) * WritesEach
       /\ \A t \in Threads : GotOf("r1", ThreadData(t)) = WritesEach

\* C20: a call of RetryWriter.write makes at most YIELD_LIMIT + 2 lock
\* attempts; when it returns Wait it made them all, another thread held the
\* writer at the last one and the step changes nothing of the channel; when
\* it returns anything else the caller held the writer, the result is the
\* inner writer's, and Ok means the caller's payload is the last record
\* published.
C20_BoundedAttempts ==
    /\ [](\A t \in Threads : attempts[t] <= YIELD_LIMIT + 2)
    /\ [][\A t \in Threads :
            (tres[t] = "none" /\ tres'[t] # "none") =>
                IF tres'[t] = "Wait"
                THEN /\ attempts'[t] = YIELD_LIMIT + 2
                     /\ holder \notin {NoThread, t}
                     /\ tpc[t] = "try"
                     /\ UNCHANGED <<wvars, done>>
                ELSE /\ holder = t /\ holder' = NoThread
                     /\ tres'[t] = wres.res
                     /\ UNCHANGED <<mem, write_offset, log>>
                     /\ tres'[t] = "Ok" => /\ log[Len(log)].data = ThreadData(t)
                                           /\ done'[t] = done[t] + 1]_vars

\* one thread was turned away with Wait while the other held the writer,
\* and both have since written
C20_Witness ==
    /\ \E t \in Threads : tres[t] = "Wait" /\ attempts[t] = YIELD_LIMIT + 2
    /\ \E t \in Threads : tres[t] = "Ok" /\ done[t] >= 1

\* C21: a call of shm_reader that finds no channel file returns
\* StorageNotFound; one that finds the file and then the lock file returns
\* StorageNotReady; one that is made after shm_writer has returned its writer
\* (the lock file removed) goes through both tests and returns a reader
\* whose position is 0.
C21_OpenOutcomes ==
    [][\A o \in Openers :
         /\ shm_reader_check_file(o) =>
                IF kfile.exists THEN opc'[o] = "check_lock" /\ ores'[o] = ores[o]
                ELSE ores'[o] = "StorageNotFound" /\ ocalls'[o] >= ocalls[o]
         /\ shm_reader_check_lock(o) =>
                IF klock THEN ores'[o] = "StorageNotReady" /\ oview'[o] = oview[o]
                ELSE opc'[o] = "open" /\ ores'[o] = ores[o]
         /\ (cres["c1"] = "Ok" /\ opc[o] # "done" /\ opc'[o] = "done")
                => /\ ofinal'[o] = "Ok"
                   /\ oview'[o].opened /\ oview'[o].read_index = 0]_vars

\* one process met all three: no file, then the lock, then the channel
C21_Witness ==
    /\ {"StorageNotFound", "StorageNotReady", "Ok"} \subseteq oseen["o1"]
    /\ oview["o1"].opened
    /\ cres["c1"] = "Ok"

\* C22: while one process runs shm_writer and others call shm_reader, a
\* reader is only ever built on a file whose metadata block and first
\* marker (the heartbeat of ShmWriter::new) are written, and only after
\* shm_writer has removed the lock file and returned the writer.
C22_LockHidesInit ==
    \A o \in Openers :
        oview[o].opened => /\ oview[o].meta /\ oview[o].marker
                           /\ cres["c1"] = "Ok"

\* a process was turned away by the lock and later given a reader
C22_Witness ==
    /\ "StorageNotReady" \in oseen["o2"]
    /\ oview["o2"].opened /\ ofinal["o2"] = "Ok"

\* C23: shm_writer returns StorageAlreadyExists whenever the channel file
\* exists when it is called, and of the calls of shm_writer for one channel
\* at most one returns a writer.
C23_OneWriter ==
    /\ [][\A c \in Creators :
            (shm_writer_exists(c) /\ kfile.exists) => cres'[c] = "StorageAlreadyExists"]_vars
    /\ [](Cardinality({c \in Creators : cres[c] = "Ok"}) <= 1)

\* C24: when shm_writer has returned an error, neither the channel file nor
\* the lock file is there.
C24_FailedCreationLeavesNothing ==
    cres["c1"] \notin {"none", "Ok"} => ~kfile.exists /\ ~klock

\* C25: try_shm_reader called with tries > 0 calls shm_reader at most tries
\* times, has slept duration_millis / tries between any two calls, stops at
\* the first success and returns the result of its last call.
C25_AtMostTries ==
    \A o \in Openers :
        otries[o] > 0 =>
            /\ ocalls[o] <= otries[o]
            /\ oslept[o] = (ocalls[o] - 1) * try_shm_reader_interval(DurationMs, otries[o])
            /\ opc[o] = "done" => ofinal[o] = ores[o]
            /\ ores[o] = "Ok" => opc[o] = "done"

\* the fields of a metadata
MetaFields == {"writer_id", "channel_id", "capacity", "max_msg_len", "timeout",
               "creation_time", "tick_unit", "version"}

\* C26: whatever Metadata::new returned, once it is written with write_to into
\* a block of 128 bytes, Metadata::read of the block succeeds and returns a
\* metadata equal to it in every field, and bytes 57..127 of the block are 0
C26_MetadataRoundTrip ==
    (md.made /\ block # <<>>) =>
        /\ Len(block) = METADATA_LEN
        /\ \A i \in 57..(METADATA_LEN - 1) : block[i + 1] = 0
        /\ rd # NoRead =>
               /\ rd.res = "Ok"
               /\ \A f \in MetaFields : rd.m[f] = md[f]

C26_Witness ==
    /\ md.made /\ rd.res = "Ok"
    /\ md.capacity = u32(300000) /\ md.max_msg_len = u32(1008)
    /\ md.channel_id = MaxU64 /\ md.tick_unit = "Micros"
    /\ rd.m.capacity = u32(300000)

\* C27: for every capacity_hint and max_msg_len_hint, Metadata::new computes
\* without overflow and returns a capacity of at least 16 KiB that is a
\* multiple of 8, and a max_msg_len that is a multiple of 8 and at most
\* capacity/128 - 8
C27_NewIsValid ==
    md.made =>
        /\ ~md.overflow
        /\ ~u32_lt(md.capacity, u32(MIN_CAPACITY))
        /\ is_aligned(md.capacity)
        /\ is_aligned(md.max_msg_len)
        /\ ~u32_lt(u32(compute_max_msg_len(md.capacity)), md.max_msg_len)

\* C28: Metadata::read fails with InvalidSignature when the signature differs
\* from 0x2A54494B4B454B2A (little-endian bytes 2A 4B 45 4B 4B 49 54 2A), with
\* InvalidCapacity when the capacity is below 16 KiB or not a multiple of 8,
\* with InvalidMaxMessageLength when max_msg_len is not a multiple of 8 or
\* exceeds capacity/128 - 8; a block that violates any of these is not read
\* as Ok
C28_ValidatedAtOpen ==
    rd # NoRead =>
        LET signature == Metadata_read_u64(block, 0)
            capacity == Metadata_read_u32(block, 32)
            max_msg_len == Metadata_read_u32(block, 36)
            sig_ok == signature = <<42, 75, 69, 75, 75, 73, 84, 42>>
            cap_ok == ~u32_lt(capacity, u32(MIN_CAPACITY)) /\ is_aligned(capacity)
            len_ok == /\ is_aligned(max_msg_len)
                      /\ ~u32_lt(u32(compute_max_msg_len(capacity)), max_msg_len)
        IN  /\ ~sig_ok => rd.res = "InvalidSignature"
            /\ (sig_ok /\ rd.res # "IncompatibleVersion" /\ ~cap_ok)
                   => rd.res = "InvalidCapacity"
            /\ (sig_ok /\ rd.res # "IncompatibleVersion" /\ cap_ok /\ ~len_ok)
                   => rd.res = "InvalidMaxMessageLength"
            /\ rd.res = "Ok" => sig_ok /\ cap_ok /\ len_ok

\* the version a block carries, and whether it has the signature
BlockVersion == Metadata_read_u64(block, 8)
Signed == Metadata_read_u64(block, 0) = SIGNATURE

\* C29 as stated: Metadata::read rejects with IncompatibleVersion the channels
\* whose writer version is strictly older (smaller as packed u64) than the
\* reader's, and no others
C29_RejectsOlder ==
    (rd # NoRead /\ Signed) =>
        (rd.res = "IncompatibleVersion" <=>
            (BlockVersion # Version_latest /\ GeqU64(Version_latest, BlockVersion)))

\* C29 amended: Metadata::read rejects with IncompatibleVersion the channels
\* whose writer version is strictly newer (greater as packed u64) than the
\* reader's, and accepts the version of the older and equal ones
C29_RejectsNewer ==
    (rd # NoRead /\ Signed) =>
        (rd.res = "IncompatibleVersion" <=>
            (BlockVersion # Version_latest /\ GeqU64(BlockVersion, Version_latest)))

C29_Witness ==
    /\ rd # NoRead /\ Signed /\ rd.res = "IncompatibleVersion"
    /\ BlockVersion = Version_new(1, 0, 1)

\* the k-th 16-bit group of a channel id, group 0 the least significant
GroupOf(channel_id, k) == channel_id[2 * k + 1] + 256 * channel_id[2 * k + 2]
\* text is four lower-case hexadecimal digits that spell n
IsHex4(text, n) ==
    /\ Len(text) = 4
    /\ \A i \in 1..4 : \E d \in 0..15 : text[i] = HexDigits[d + 1]
    /\ LET digit(i) == CHOOSE d \in 0..15 : text[i] = HexDigits[d + 1]
       IN  n = ((digit(1) * 16 + digit(2)) * 16 + digit(3)) * 16 + digit(4)
\* text is hhhh_hhhh for the groups hi and lo
IsGroups(text, hi, lo) ==
    /\ Len(text) = 9
    /\ IsHex4(SubSeq(text, 1, 4), hi)
    /\ text[5] = "_"
    /\ IsHex4(SubSeq(text, 6, 9), lo)

\* C30: storage_path(root, channel_id) is root/{g3}_{g2}/{g1}_{g0}.kekbit with
\* g3..g0 the 16-bit groups of the id, most significant first, each as four
\* lower-case hex digits; two distinct ids under one root never have the same
\* path; the lock path is the same path with the extension lock
C30_StoragePath ==
    /\ \A c \in paths :
          LET n == Len(c.root)
          IN  /\ c.path = storage_path(c.root, c.id)
              /\ Len(c.path) = n + 2
              /\ SubSeq(c.path, 1, n) = c.root
              /\ IsGroups(c.path[n + 1], GroupOf(c.id, 3), GroupOf(c.id, 2))
              /\ Len(c.path[n + 2]) = 16
              /\ IsGroups(SubSeq(c.path[n + 2], 1, 9), GroupOf(c.id, 1), GroupOf(c.id, 0))
              /\ SubSeq(c.path[n + 2], 10, 16) = <<".", "k", "e", "k", "b", "i", "t">>
              /\ Len(c.lock) = n + 2
              /\ SubSeq(c.lock, 1, n + 1) = SubSeq(c.path, 1, n + 1)
              /\ c.lock[n + 2] = SubSeq(c.path[n + 2], 1, 9) \o <<".", "l", "o", "c", "k">>
    /\ \A a, b \in paths : (a.root = b.root /\ a.id # b.id) => a.path # b.path

C30_Witness ==
    \E a, b \in paths :
        /\ a.root = b.root /\ a.root = <<<<"t", "m", "p">>, <<"k", ".", "d">>>>
        /\ a.id = ChannelId(43690, 187, 12, 3549)
        /\ a.path[3] = <<"a", "a", "a", "a", "_", "0", "0", "b", "b">>
        /\ a.path[4] = <<"0", "0", "0", "c", "_", "0", "d", "d", "d", ".", "k", "e", "k", "b", "i", "t">>
        /\ b.id = ChannelId(43690, 187, 12, 1)

\* the writer has been created and no call has been made on it since
FreshChannel == wpc \in {"unlock", "idle"} /\ wres.op = "new"

\* C31: a freshly created channel holds the initial WATERMARK and no
\* heartbeat: right after its creation write_offset() is 0, and a reader
\* that polls it gets Nothing and stays at position 0
C31_NoInitialHeartbeat ==
    FreshChannel =>
        /\ write_offset = 0
        /\ \A r \in Readers :
               rres[r] # NoCall => rres[r] = Nothing /\ read_index[r] = 0

\* C32: from the removal of the lock until the writer is dropped, whenever no
\* writer call is under way (after a successful or failed write, a heartbeat)
\* the slot at the write cursor holds WATERMARK; Drop stores CLOSE into that
\* slot, where it stays
C32_WatermarkAtCursor ==
    /\ [](wpc = "idle" => load_atomic_u64(mem, write_offset) = WATERMARK)
    /\ [][(wpc = "idle" /\ wpc' = "dropped")
            => /\ load_atomic_u64(mem, write_offset) = WATERMARK
               /\ load_atomic_u64(mem', write_offset) = CLOSE]_vars
    /\ [](wpc = "dropped" => load_atomic_u64(mem, close_index) = CLOSE)

C32_Witness ==
    /\ wpc = "dropped" /\ close_index = 3 * U64_SIZE
    /\ load_atomic_u64(mem, close_index) = CLOSE
    /\ wres.op = "write" /\ wres.res = "EncodingError"

\* the offsets at which reader r has loaded a marker: where it stands and the
\* headers of the records it was given
LoadedAt(r) ==
    IF opened[r] /\ rres[r] # NoCall
    THEN {read_index[r]} \cup {got[r][i].off : i \in 1..Len(got[r])}
    ELSE {}

\* C33: a marker that a reader has loaded as something other than WATERMARK
\* keeps that value for every later load; a slot that holds CLOSE is not
\* written again, and a dropped writer stays dropped
C33_MarkerStability ==
    /\ [][\A r \in Readers : \A o \in LoadedAt(r) :
            load_atomic_u64(mem, o) # WATERMARK
                => load_atomic_u64(mem', o) = load_atomic_u64(mem, o)]_vars
    /\ [][close_index >= 0
            => /\ close_index' = close_index
               /\ load_atomic_u64(mem', close_index) = CLOSE
               /\ mem' = mem
               /\ wpc' = "dropped"]_vars

C33_Witness ==
    /\ wpc = "dropped"
    /\ Len(got["r1"]) = 2 /\ got["r1"][2].off = U64_SIZE
    /\ rres["r1"] = Err(Closed)
    /\ rres["r2"].kind = "Record" /\ read_index["r2"] = U64_SIZE
    /\ close_index = 3 * U64_SIZE

\* C34: every 8-byte sentinel the writer stores lies inside the mapped file:
\* the write cursor never exceeds the capacity, so WATERMARK behind a record
\* and CLOSE at the cursor are stored at data offsets of at most the capacity,
\* which the footer covers
C34_StoresInsideFile ==
    /\ g_offset <= FileCapacity
    /\ \A at \in g_stores :
          /\ at - data_ptr <= FileCapacity
          /\ at + U64_SIZE <= total_len

\* a writer call returns Ok
ReturnsOk == wpc = "meta2" /\ wpc' \in {"idle", "unlock"}

\* C35: a successful write of L encoded bytes returns ceil_8(8 + L) and moves
\* the cursor by that amount; after any sequence of calls on a fresh channel
\* write_offset() is the sum of the sizes returned; every record header is at
\* a multiple of 8 and no payload reaches into the next header
C35_WriteSizes ==
    /\ [][ReturnsOk =>
             /\ wres'.size = align(REC_HEADER_LEN + wop.len)
             /\ write_offset' = write_offset + wres'.size]_vars
    /\ [](wpc = "idle" => write_offset = SumSizes(CallerSlots))
    /\ [](\A i \in 1..Len(log) :
             /\ log[i].off % REC_ALIGNMENT = 0
             /\ i < Len(log) => log[i].off + REC_HEADER_LEN + log[i].len <= log[i + 1].off)

BadMarker(word) == ~LeqU64(word, MaxMsgLen) /\ word # WATERMARK /\ word # CLOSE

\* C37: a try_read that loads a marker above max_msg_len that is neither
\* WATERMARK nor CLOSE fails with Failed, the reader is exhausted from then
\* on (with Failed, unless it had failed before) and its cursor stays; as
\* long as only the writer has stored into the channel no reader reports
\* Failed
C37_FailedOnlyWhenCorrupted ==
    /\ [][(try_read("r1") /\ BadMarker(load_atomic_u64(mem, read_index["r1"]))) =>
             /\ rres'["r1"] = Err(Failed)
             /\ failure'["r1"] = IF failure["r1"] = None THEN Failed ELSE failure["r1"]
             /\ read_index'["r1"] = read_index["r1"]]_vars
    /\ [][failure["r1"] # None => failure'["r1"] = failure["r1"]]_vars
    /\ [](~tampered => rres["r1"] # Err(Failed) /\ failure["r1"] # Failed)

C37_Witness ==
    /\ tampered
    /\ rres["r1"] = Err(Failed) /\ failure["r1"] = Failed
    /\ read_index["r1"] = 3 * U64_SIZE /\ Len(got["r1"]) = 2
    /\ err_polls["r1"] = 1

\* the timeout reader is polled, directly or through its iterator
Polled(r) == try_read(r) \/ TryIter_next(r)
\* the slot the reader stands at is a published heartbeat
AtHeartbeat(r) ==
    \E i \in 1..Len(log) :
        log[i].off = read_index[r] /\ log[i].kind \in {"heartbeat", "new"}

HookWrites(hs) ==
    LET n == Len(hs)
    IN  [i \in 1..n |-> hs[n + 1 - i].in] \o [i \in 1..n |-> hs[i].out]
RECURSIVE TakenBy(_, _)
\* the bytes a sink with room for cap bytes has taken when the hooks are
\* called in order up to the first one that fails
TakenBy(hooks, cap) ==
    IF hooks = <<>> \/ Len(Head(hooks)) > cap THEN <<>>
    ELSE Head(hooks) \o TakenBy(Tail(hooks), cap - Len(Head(hooks)))

\* C39: when a hook of the chain fails, no later hook is called (the sink
\* holds what the hooks before the failing one wrote and nothing else), and
\* the write is aborted: the writer returns an error, stores no header,
\* publishes no record and leaves its cursor where it was
C39_FailedHookAborts ==
    /\ [](h_sink.run =>
            /\ h_sink.ok = (Len(Flatten(HookWrites(h_list))) <= h_sink.cap)
            /\ h_sink.bytes = TakenBy(HookWrites(h_list), h_sink.cap))
    /\ [][(Pipeline_write /\ h_sink'.run /\ ~h_sink'.ok)
           => /\ wres'.op = "write" /\ wres'.res # "Ok"
              /\ write_offset' = write_offset
              /\ log' = log
              /\ wpc' = "idle"
              /\ \A a \in 0..(write_offset + REC_HEADER_LEN - 1) : mem'[a] = mem[a]
              /\ load_atomic_u64(mem', write_offset) = WATERMARK]_vars

\* the payload does not fit behind what the two decorators wrote on the way
\* in: handle of the EncoderHandler fails, the two outgoing hooks are skipped
C39_Witness ==
    /\ h_list = <<EncoderHandler(Fill(65, 3)), IdHandler(1), IdHandler(2)>>
    /\ h_sink.run /\ ~h_sink.ok
    /\ h_sink.bytes = ToLe(2) \o ToLe(1)
    /\ wres.op = "write" /\ wres.res = "NoSpaceForRecord"
    /\ wpc = "idle"
    /\ write_offset = U64_SIZE /\ Len(log) = 1
    /\ SliceOf(mem, payload_ptr(write_offset), 2 * U64_SIZE) = h_sink.bytes

\* C40: next() of a RetryIter ends after at most YIELD_LIMIT + 2 calls of
\* the inner next(): a Record, a Failed or a None of the inner iterator is
\* returned by the turn that got it; a Nothing is polled again until the
\* back-off is completed and is returned then; the records RetryIter has
\* returned are those the inner iterator has returned, in order, none
\* dropped and none twice
C40_RetryIterTerminates ==
    /\ [](/\ ri_polls["r2"] <= YIELD_LIMIT + 2
          /\ (ri_pc["r2"] = "loop" => ri_polls["r2"] <= YIELD_LIMIT + 1)
          /\ ri_got["r2"] = got["r2"])
    /\ [][RetryIter_next("r2") =>
            LET res == iter_res'["r2"]
            IN  /\ res.kind \in {"Record", "Failed", "None"}
                      => ri_pc'["r2"] = "idle" /\ ri_res'["r2"] = res
                /\ res.kind = "Nothing"
                      => /\ (ri_pc'["r2"] = "idle") = (ri_polls'["r2"] = YIELD_LIMIT + 2)
                         /\ ri_pc'["r2"] = "idle" => ri_res'["r2"] = IterSome(Nothing)
                         /\ ri_pc'["r2"] = "loop" => ri_got'["r2"] = ri_got["r2"]]_vars
    /\ (ri_pc["r2"] = "loop") ~> (ri_pc["r2"] = "idle")

\* after a record, three polls of the empty channel and then Nothing
C40_Witness ==
    /\ ri_pc["r2"] = "idle"
    /\ ri_res["r2"] = IterSome(Nothing)
    /\ ri_polls["r2"] = YIELD_LIMIT + 2
    /\ Len(ri_got["r2"]) = 2 /\ ri_got["r2"][2].data = Fill(65, 3)
====
